---------------------------- MODULE Spec2Model ----------------------------
(***************************************************************************)
(* Bit-precision stream codec (bitstream-io): BitWriter (src/src/write.rs) *)
(* and BitReader (src/src/read.rs) over the generic bit accumulator, and   *)
(* the Huffman decode-tree compiler (src/src/huffman.rs).                  *)
(*                                                                         *)
(* A machine integer of width w is the set of the positions (0 = least     *)
(* significant) of its 1 bits, a subset of 0..w-1, so that 64-bit values   *)
(* keep their exact width.  A byte of a stream is such a set over 0..7.    *)
(***************************************************************************)
EXTENDS Integers, Sequences, FiniteSets, TLC

(***************************************************************************)
(* Numeric capability (the Numeric / SignedNumeric traits of the crate     *)
(* root, used by read.rs and write.rs as U::bits_size(), U::one(),         *)
(* from_u8, to_u8, <<, >>, %, >=, is_negative, as_negative, as_unsigned).  *)
(***************************************************************************)
Types ==
    { [name |-> "u8",  w |-> 8,  signed |-> FALSE],
      [name |-> "i8",  w |-> 8,  signed |-> TRUE],
      [name |-> "u16", w |-> 16, signed |-> FALSE],
      [name |-> "i16", w |-> 16, signed |-> TRUE],
      [name |-> "u32", w |-> 32, signed |-> FALSE],
      [name |-> "i32", w |-> 32, signed |-> TRUE],
      [name |-> "u64", w |-> 64, signed |-> FALSE],
      [name |-> "i64", w |-> 64, signed |-> TRUE] }

Ty(n) == CHOOSE T \in Types : T.name = n

U8 == Ty("u8")

UnsignedTypes == { T \in Types : ~T.signed }

SignedTypes == { T \in Types : T.signed }

bits_size(T) == T.w

Max(S) == CHOOSE x \in S : \A y \in S : y <= x

Min(S) == CHOOSE x \in S : \A y \in S : x <= y

\* the value 2^k - 1 of any type wide enough: bits 0..k-1 set
LowBits(k) == 0 .. (k - 1)

zero == {}

one == {0}

is_zero(v) == v = {}

\* `u as T`: a u8 widened (or reinterpreted, for i8) keeps its 8 bits
from_u8(T, u) == u \cap LowBits(Min({T.w, 8}))

\* `self as u8`: truncation to the low 8 bits
to_u8(v) == v \cap LowBits(8)

\* value << k on a w-bit integer, k < w (bits shifted out are lost)
Shl(T, v, k) == { i + k : i \in v } \cap LowBits(T.w)

is_negative(T, v) == T.signed /\ (T.w - 1) \in v

\* value >> k: logical for unsigned types, arithmetic for signed ones
Shr(T, v, k) ==
    { i - k : i \in { j \in v : j >= k } }
    \cup (IF is_negative(T, v) THEN (T.w - k) .. (T.w - 1) ELSE {})

BitOr(a, b) == a \cup b

BitXor(a, b) == (a \ b) \cup (b \ a)

BitNot(T, v) == LowBits(T.w) \ v

\* a + b modulo 2^w: there is a carry into position i when some lower
\* position generates one and every position in between propagates it
Add(T, a, b) ==
    LET carry(i) ==
            \E j \in 0 .. (i - 1) :
                /\ j \in a \cap b
                /\ \A k \in (j + 1) .. (i - 1) : k \in a \cup b
    IN  { i \in LowBits(T.w) : ((i \in a) # (i \in b)) # carry(i) }

Neg(T, v) == Add(T, BitNot(T, v), one)

Sub(T, a, b) == Add(T, a, Neg(T, b))

\* unsigned order of two bit patterns: the highest differing bit decides
ULess(a, b) == a # b /\ Max(BitXor(a, b)) \in b

\* a < b in type T (two's complement order for signed types)
Less(T, a, b) ==
    IF is_negative(T, a) # is_negative(T, b)
    THEN is_negative(T, a)
    ELSE ULess(a, b)

GreaterEq(T, a, b) == ~Less(T, a, b)

\* a % (1 << k) in type T: Rust's remainder takes the sign of the dividend
RemPow2(T, a, k) ==
    IF is_negative(T, a)
    THEN Neg(T, Neg(T, a) \cap LowBits(k))
    ELSE a \cap LowBits(k)

count_ones(v) == Cardinality(v)

leading_zeros(T, v) == IF v = {} THEN T.w ELSE T.w - 1 - Max(v)

trailing_zeros(T, v) == IF v = {} THEN T.w ELSE Min(v)

\* SignedNumeric::as_negative: self + (-1 << (bits - 1))
as_negative(T, v, bits) == Add(T, v, Shl(T, LowBits(T.w), bits - 1))

\* SignedNumeric::as_unsigned: self - (-1 << (bits - 1))
as_unsigned(T, v, bits) == Sub(T, v, Shl(T, LowBits(T.w), bits - 1))

(***************************************************************************)
(* Bit accumulator BitQueue<E,N>: (value, bits), with the bit order E      *)
(* deciding at which end bits are pushed and popped.                       *)
(***************************************************************************)
Endians == {"BE", "LE"}

BitQueue_new == [value |-> zero, bits |-> 0]

from_value(value, bits) == [value |-> value, bits |-> bits]

set(value, bits) == [value |-> value, bits |-> bits]

clear == set(zero, 0)

len(q) == q.bits

max_len(T) == bits_size(T)

remaining_len(T, q) == max_len(T) - len(q)

is_empty(q) == q.bits = 0

is_full(T, q) == q.bits = max_len(T)

all_0(q) == count_ones(q.value) = 0

all_1(q) == count_ones(q.value) = q.bits

\* BigEndian: new bits enter at the low end, the oldest bits are the high ones.
\* LittleEndian: new bits enter above the cached ones, the oldest are the low ones.
push(E, T, q, bits, value) ==
    IF E = "BE"
    THEN [value |-> BitOr(IF is_zero(q.value) THEN q.value
                          ELSE Shl(T, q.value, bits), value),
          bits  |-> q.bits + bits]
    ELSE [value |-> IF is_zero(value) THEN q.value
                    ELSE BitOr(q.value, Shl(T, value, q.bits)),
          bits  |-> q.bits + bits]

\* pop returns [q: the queue left, v: the bits taken]
pop(E, T, q, bits) ==
    IF bits < q.bits
    THEN IF E = "BE"
         THEN LET offset == q.bits - bits
              IN  [q |-> [value |-> RemPow2(T, q.value, offset),
                          bits  |-> q.bits - bits],
                   v |-> Shr(T, q.value, offset)]
         ELSE [q |-> [value |-> Shr(T, q.value, bits),
                      bits  |-> q.bits - bits],
               v |-> RemPow2(T, q.value, bits)]
    ELSE [q |-> [value |-> zero, bits |-> 0], v |-> q.value]

drop(E, T, q, bits) == pop(E, T, q, bits).q

next_zeros(E, T, q) ==
    IF E = "BE"
    THEN leading_zeros(T, q.value) - (bits_size(T) - q.bits)
    ELSE trailing_zeros(T, q.value)

next_ones(E, T, q) ==
    IF E = "BE"
    THEN IF q.bits < bits_size(T)
         THEN leading_zeros(T, BitXor(q.value, LowBits(q.bits)))
                  - (bits_size(T) - q.bits)
         ELSE leading_zeros(T, BitNot(T, q.value))
    ELSE trailing_zeros(T, BitNot(T, q.value))

\* F applied to v: names an intermediate result
With(v, F(_)) == F(v)

\* pop_0 / pop_1: count the leading run and consume it with its terminator;
\* [q: the queue left, v: the length of the run]
pop_0(E, T, q) ==
    With(next_zeros(E, T, q),
         LAMBDA zeros : [q |-> drop(E, T, q, zeros + 1), v |-> zeros])

pop_1(E, T, q) ==
    With(next_ones(E, T, q),
         LAMBDA ones : [q |-> drop(E, T, q, ones + 1), v |-> ones])

(***************************************************************************)
(* BitWriter<E> (src/src/write.rs).  A writer is [sink, cap, bitqueue]:    *)
(* the bytes the underlying io::Write has accepted, the number of bytes    *)
(* it accepts before write_all fails, and the BitQueue<E,u8> residual.     *)
(* Every operation returns [w: the writer left, res: "Ok" or the error].   *)
(***************************************************************************)
BitWriter_new(cap) == [sink |-> << >>, cap |-> cap, bitqueue |-> BitQueue_new]

WOk(w) == [w |-> w, res |-> "Ok"]

WErr(w, kind) == [w |-> w, res |-> kind]

\* r.and_then(F): F runs on the writer left by r only when r succeeded
WThen(r, F(_)) == IF r.res = "Ok" THEN F(r.w) ELSE r

\* io::Write::write_all: the bytes that fit are written, then the sink fails
write_all(w, buf) ==
    IF Len(w.sink) + Len(buf) <= w.cap
    THEN WOk([w EXCEPT !.sink = @ \o buf])
    ELSE WErr([w EXCEPT !.sink = @ \o SubSeq(buf, 1, w.cap - Len(@))],
              "IoError")

write_byte(w, byte) == write_all(w, <<byte>>)

write_bit(E, w, bit) ==
    With(push(E, U8, w.bitqueue, 1, IF bit THEN one ELSE zero),
         LAMBDA q :
           IF is_full(U8, q)
           THEN With(pop(E, U8, q, 8),
                     LAMBDA p : write_byte([w EXCEPT !.bitqueue = p.q], p.v))
           ELSE WOk([w EXCEPT !.bitqueue = q]))

\* write_unaligned: tops the residual byte up from acc and flushes it when
\* complete; [w, acc, res]
write_unaligned(E, N, w, acc) ==
    IF is_empty(w.bitqueue)
    THEN [w |-> w, acc |-> acc, res |-> "Ok"]
    ELSE With(Min({8 - len(w.bitqueue), len(acc)}),
           LAMBDA bits_to_transfer :
         With(pop(E, N, acc, bits_to_transfer),
           LAMBDA a :
         With(push(E, U8, w.bitqueue, bits_to_transfer, to_u8(a.v)),
           LAMBDA rem :
             IF len(rem) = 8
             THEN With(pop(E, U8, rem, 8),
                    LAMBDA p :
                  With(write_byte([w EXCEPT !.bitqueue = p.q], p.v),
                    LAMBDA r : [w |-> r.w, acc |-> a.q, res |-> r.res]))
             ELSE [w |-> [w EXCEPT !.bitqueue = rem], acc |-> a.q,
                   res |-> "Ok"])))

\* the to_write bytes popped from acc, in order: [acc, buf]
RECURSIVE pop_bytes(_, _, _, _)
pop_bytes(E, N, acc, to_write) ==
    IF to_write = 0
    THEN [acc |-> acc, buf |-> << >>]
    ELSE With(pop(E, N, acc, 8),
           LAMBDA a :
         With(pop_bytes(E, N, a.q, to_write - 1),
           LAMBDA rest :
             [acc |-> rest.acc, buf |-> <<to_u8(a.v)>> \o rest.buf]))

\* write_aligned with the flush forgotten: the bytes are popped, not written
write_aligned_dropped(E, N, w, acc) ==
    IF len(acc) \div 8 > 0
    THEN With(pop_bytes(E, N, acc, len(acc) \div 8),
              LAMBDA b : [w |-> w, acc |-> b.acc, res |-> "Ok"])
    ELSE [w |-> w, acc |-> acc, res |-> "Ok"]

\* write_aligned: the whole bytes of acc go to the sink in one write_all
write_aligned(E, N, w, acc) ==
    IF len(acc) \div 8 > 0
    THEN With(pop_bytes(E, N, acc, len(acc) \div 8),
           LAMBDA b :
         With(write_all(w, b.buf),
           LAMBDA r : [w |-> r.w, acc |-> b.acc, res |-> r.res]))
    ELSE [w |-> w, acc |-> acc, res |-> "Ok"]

\* write with the value check off by one: `value > (U::one() << bits)`
write_value_check_gt(E, U, w, bits, value) ==
    IF bits > bits_size(U)
    THEN WErr(w, "InvalidInput")
    ELSE IF bits < bits_size(U) /\ Less(U, Shl(U, one, bits), value)
    THEN WErr(w, "InvalidInput")
    ELSE IF bits < remaining_len(U8, w.bitqueue)
    THEN WOk([w EXCEPT !.bitqueue = push(E, U8, @, bits, to_u8(value))])
    ELSE With(write_unaligned(E, U, w, from_value(value, bits)),
           LAMBDA s1 :
         With(IF s1.res = "Ok"
              THEN write_aligned(E, U, s1.w, s1.acc)
              ELSE s1,
           LAMBDA s2 :
             IF s2.res = "Ok"
             THEN WOk([s2.w EXCEPT !.bitqueue =
                          push(E, U8, @, len(s2.acc), to_u8(s2.acc.value))])
             ELSE WErr(s2.w, s2.res)))

write(E, U, w, bits, value) ==
    IF bits > bits_size(U)
    THEN WErr(w, "InvalidInput")
    ELSE IF bits < bits_size(U) /\ GreaterEq(U, value, Shl(U, one, bits))
    THEN WErr(w, "InvalidInput")
    ELSE IF bits < remaining_len(U8, w.bitqueue)
    THEN WOk([w EXCEPT !.bitqueue = push(E, U8, @, bits, to_u8(value))])
    ELSE With(write_unaligned(E, U, w, from_value(value, bits)),
           LAMBDA s1 :
         With(IF s1.res = "Ok"
              THEN write_aligned(E, U, s1.w, s1.acc)
              ELSE s1,
           LAMBDA s2 :
             IF s2.res = "Ok"
             THEN WOk([s2.w EXCEPT !.bitqueue =
                          push(E, U8, @, len(s2.acc), to_u8(s2.acc.value))])
             ELSE WErr(s2.w, s2.res)))

\* byte_aligned testing the pending value instead of the pending bit count
byte_aligned_by_value(x) == x.bitqueue.value = zero

\* BitWriter::byte_aligned and BitReader::byte_aligned
byte_aligned(x) == is_empty(x.bitqueue)

RECURSIVE write_bytes_each(_, _, _)
write_bytes_each(E, w, buf) ==
    IF buf = << >>
    THEN WOk(w)
    ELSE WThen(write(E, U8, w, 8, Head(buf)),
               LAMBDA x : write_bytes_each(E, x, Tail(buf)))

\* write_bytes taking the bulk path whatever the alignment
write_bytes_bulk(E, w, buf) == write_all(w, buf)

write_bytes(E, w, buf) ==
    IF byte_aligned(w)
    THEN write_all(w, buf)
    ELSE write_bytes_each(E, w, buf)

\* the chunk loop counting one bit short per chunk: `bits -= 63`
RECURSIVE unary_chunks_short(_, _, _, _)
unary_chunks_short(E, w, bits, fill) ==
    IF bits > 64
    THEN With(write(E, Ty("u64"), w, 64, fill),
              LAMBDA r :
                IF r.res = "Ok"
                THEN unary_chunks_short(E, r.w, bits - 63, fill)
                ELSE [w |-> r.w, bits |-> bits, res |-> r.res])
    ELSE [w |-> w, bits |-> bits, res |-> "Ok"]

\* the `while bits > 64` loop of write_unary0 / write_unary1: 64-bit chunks
\* of `fill`; [w, bits, res]
RECURSIVE unary_chunks(_, _, _, _)
unary_chunks(E, w, bits, fill) ==
    IF bits > 64
    THEN With(write(E, Ty("u64"), w, 64, fill),
              LAMBDA r :
                IF r.res = "Ok"
                THEN unary_chunks(E, r.w, bits - 64, fill)
                ELSE [w |-> r.w, bits |-> bits, res |-> r.res])
    ELSE [w |-> w, bits |-> bits, res |-> "Ok"]

\* the match arms of write_unary0 for value <= 64
write_unary0_arm(E, w, value) ==
    IF value = 0
    THEN write_bit(E, w, FALSE)
    ELSE IF value <= 31
    THEN WThen(write(E, Ty("u32"), w, value, LowBits(value)),
               LAMBDA x : write_bit(E, x, FALSE))
    ELSE IF value = 32
    THEN WThen(write(E, Ty("u32"), w, value, LowBits(32)),
               LAMBDA x : write_bit(E, x, FALSE))
    ELSE IF value <= 63
    THEN WThen(write(E, Ty("u64"), w, value, LowBits(value)),
               LAMBDA x : write_bit(E, x, FALSE))
    ELSE WThen(write(E, Ty("u64"), w, value, LowBits(64)),
               LAMBDA x : write_bit(E, x, FALSE))

write_unary0(E, w, value) ==
    IF value <= 64
    THEN write_unary0_arm(E, w, value)
    ELSE With(unary_chunks(E, w, value, LowBits(64)),
              LAMBDA c :
                IF c.res = "Ok"
                THEN write_unary0_arm(E, c.w, c.bits)
                ELSE WErr(c.w, c.res))

\* the match arms of write_unary1 for value <= 64
write_unary1_arm(E, w, value) ==
    IF value = 0
    THEN write_bit(E, w, TRUE)
    ELSE IF value <= 32
    THEN WThen(write(E, Ty("u32"), w, value, zero),
               LAMBDA x : write_bit(E, x, TRUE))
    ELSE WThen(write(E, Ty("u64"), w, value, zero),
               LAMBDA x : write_bit(E, x, TRUE))

write_unary1(E, w, value) ==
    IF value <= 64
    THEN write_unary1_arm(E, w, value)
    ELSE With(unary_chunks(E, w, value, zero),
              LAMBDA c :
                IF c.res = "Ok"
                THEN write_unary1_arm(E, c.w, c.bits)
                ELSE WErr(c.w, c.res))

\* byte_align padding with one-bits: `self.write_bit(true)?`
RECURSIVE byte_align_ones(_, _)
byte_align_ones(E, w) ==
    IF byte_aligned(w)
    THEN WOk(w)
    ELSE WThen(write_bit(E, w, TRUE),
               LAMBDA x : byte_align_ones(E, x))

\* `while !self.byte_aligned() { self.write_bit(false)? }`
RECURSIVE BitWriter_byte_align(_, _)
BitWriter_byte_align(E, w) ==
    IF byte_aligned(w)
    THEN WOk(w)
    ELSE WThen(write_bit(E, w, FALSE),
               LAMBDA x : BitWriter_byte_align(E, x))

into_unwritten(w) == <<len(w.bitqueue), w.bitqueue.value>>

\* `a - b` on u32.  Below zero the subtraction panics in a build that checks
\* overflow and wraps in a build that does not; the wrapped value
\* 2^32 - (b - a) is kept as its set of bits, `wide` telling the two apart.
RECURSIVE bits_of(_, _)
bits_of(n, i) ==
    IF n = 0 THEN {}
    ELSE (IF n % 2 = 1 THEN {i} ELSE {}) \cup bits_of(n \div 2, i + 1)

sub_u32(checked, a, b) ==
    IF a >= b
    THEN [res |-> "Ok", wide |-> FALSE, v |-> a - b]
    ELSE IF checked
    THEN [res |-> "Panic", wide |-> FALSE, v |-> 0]
    ELSE [res |-> "Ok", wide |-> TRUE,
          v |-> LowBits(32) \ bits_of(b - a - 1, 0)]

\* a wrapped u32 width is larger than the n <= 64 bits of a type
excessive(u, n) == \E i \in u : i > 6 \/ 2 ^ i > n

\* the number a width of at most seven bits stands for
RECURSIVE nat_of(_)
nat_of(u) ==
    IF u = {}
    THEN 0
    ELSE With(CHOOSE i \in u : TRUE,
              LAMBDA i : (2 ^ i) + nat_of(u \ {i}))

\* BitWriter::write called with the width `bits - 1` of write_signed
write_sub(d, E, S, w, value) ==
    IF d.res # "Ok"
    THEN WErr(w, d.res)
    ELSE IF d.wide
    THEN IF excessive(d.v, bits_size(S))
         THEN WErr(w, "InvalidInput")
         ELSE write(E, S, w, nat_of(d.v), value)
    ELSE write(E, S, w, d.v, value)

\* BitWriter<BigEndian>::write_signed and BitWriter<LittleEndian>::write_signed
\* in a build with (checked) or without overflow checks
write_signed_build(checked, E, S, w, bits, value) ==
    IF bits > bits_size(S)
    THEN WErr(w, "InvalidInput")
    ELSE IF E = "BE"
    THEN IF is_negative(S, value)
         THEN WThen(write_bit(E, w, TRUE),
                    LAMBDA x : write_sub(sub_u32(checked, bits, 1), E, S, x,
                                         as_unsigned(S, value, bits)))
         ELSE WThen(write_bit(E, w, FALSE),
                    LAMBDA x : write_sub(sub_u32(checked, bits, 1), E, S, x,
                                         value))
    ELSE IF is_negative(S, value)
         THEN WThen(write_sub(sub_u32(checked, bits, 1), E, S, w,
                              as_unsigned(S, value, bits)),
                    LAMBDA x : write_bit(E, x, TRUE))
         ELSE WThen(write_sub(sub_u32(checked, bits, 1), E, S, w, value),
                    LAMBDA x : write_bit(E, x, FALSE))

\* write_signed for bits >= 1, where both builds do the same
write_signed(E, S, w, bits, value) ==
    write_signed_build(TRUE, E, S, w, bits, value)

(***************************************************************************)
(* BitReader<E> (src/src/read.rs).  A reader is [src, pos, bitqueue]: the  *)
(* bytes of the underlying io::Read, how many of them have been fetched,   *)
(* and the BitQueue<E,u8> residual.  Every operation returns               *)
(* [r: the reader left, res: "Ok" or the error, v: the value read].        *)
(***************************************************************************)
BitReader_new(src) == [src |-> src, pos |-> 0, bitqueue |-> BitQueue_new]

\* a source element that is no byte: the stream delivers the bytes before
\* it and fails there with an error whose kind is not UnexpectedEof
Broken == {8}

\* the position of the first element from pos on that is no byte, past the
\* end when there is none
FirstBroken(r) ==
    Min({ i \in (r.pos + 1) .. Len(r.src) : r.src[i] = Broken }
        \cup {Len(r.src) + 1})

\* io::Read::read_exact: [r, res, buf]; on an exhausted source the error is
\* UnexpectedEof ("IoError"), on a failing one "OtherError"
read_exact(r, n) ==
    IF r.pos + n < FirstBroken(r)
    THEN [r |-> [r EXCEPT !.pos = @ + n], res |-> "Ok",
          buf |-> SubSeq(r.src, r.pos + 1, r.pos + n)]
    ELSE IF FirstBroken(r) <= Len(r.src)
    THEN [r |-> [r EXCEPT !.pos = FirstBroken(r) - 1], res |-> "OtherError",
          buf |-> << >>]
    ELSE [r |-> [r EXCEPT !.pos = Len(r.src)], res |-> "IoError",
          buf |-> << >>]

read_byte(r) ==
    With(read_exact(r, 1),
         LAMBDA x : [r |-> x.r, res |-> x.res,
                     v |-> IF x.res = "Ok" THEN x.buf[1] ELSE zero])

read_bit(E, r) ==
    With(IF is_empty(r.bitqueue)
         THEN With(read_byte(r),
                   LAMBDA b :
                     IF b.res = "Ok"
                     THEN [r |-> [b.r EXCEPT !.bitqueue = set(b.v, 8)],
                           res |-> "Ok"]
                     ELSE [r |-> b.r, res |-> b.res])
         ELSE [r |-> r, res |-> "Ok"],
         LAMBDA f :
           IF f.res = "Ok"
           THEN With(pop(E, U8, f.r.bitqueue, 1),
                     LAMBDA p : [r |-> [f.r EXCEPT !.bitqueue = p.q],
                                 res |-> "Ok", v |-> p.v = one])
           ELSE [r |-> f.r, res |-> f.res, v |-> FALSE])

\* acc.push(8, N::from_u8(b)) for each byte b of buf, in order
RECURSIVE push_bytes(_, _, _, _)
push_bytes(E, N, acc, buf) ==
    IF buf = << >>
    THEN acc
    ELSE push_bytes(E, N, push(E, N, acc, 8, from_u8(N, Head(buf))),
                    Tail(buf))

\* read_aligned pushing only the first of the bytes it fetched
read_aligned_first(E, N, r, bytes, acc) ==
    With(read_exact(r, bytes),
         LAMBDA x :
           IF x.res = "Ok"
           THEN [r |-> x.r,
                 acc |-> IF x.buf = << >> THEN acc
                         ELSE push_bytes(E, N, acc, <<Head(x.buf)>>),
                 res |-> "Ok"]
           ELSE [r |-> x.r, acc |-> acc, res |-> x.res])

\* read_aligned: [r, acc, res]
read_aligned(E, N, r, bytes, acc) ==
    With(read_exact(r, bytes),
         LAMBDA x :
           IF x.res = "Ok"
           THEN [r |-> x.r, acc |-> push_bytes(E, N, acc, x.buf),
                 res |-> "Ok"]
           ELSE [r |-> x.r, acc |-> acc, res |-> x.res])

\* read_unaligned with the rest of the byte thrown away instead of kept
read_unaligned_dropped(E, N, r, bits, acc) ==
    IF bits > 0
    THEN With(read_byte(r),
           LAMBDA b :
             IF b.res = "Ok"
             THEN With(pop(E, U8, set(b.v, 8), bits),
                    LAMBDA p :
                      [r |-> [b.r EXCEPT !.bitqueue = clear],
                       acc |-> push(E, N, acc, bits, from_u8(N, p.v)),
                       res |-> "Ok"])
             ELSE [r |-> b.r, acc |-> acc, res |-> b.res])
    ELSE [r |-> r, acc |-> acc, res |-> "Ok"]

\* read_unaligned: one more byte becomes the residual, `bits` of it go to
\* acc; [r, acc, res]
read_unaligned(E, N, r, bits, acc) ==
    IF bits > 0
    THEN With(read_byte(r),
           LAMBDA b :
             IF b.res = "Ok"
             THEN With(pop(E, U8, set(b.v, 8), bits),
                    LAMBDA p :
                      [r |-> [b.r EXCEPT !.bitqueue = p.q],
                       acc |-> push(E, N, acc, bits, from_u8(N, p.v)),
                       res |-> "Ok"])
             ELSE [r |-> b.r, acc |-> acc, res |-> b.res])
    ELSE [r |-> r, acc |-> acc, res |-> "Ok"]

\* read with the width check off by one
read_width_check_lax(E, U, r, bits) ==
    IF bits <= bits_size(U) + 1
    THEN IF bits <= len(r.bitqueue)
         THEN With(pop(E, U8, r.bitqueue, bits),
                LAMBDA p : [r |-> [r EXCEPT !.bitqueue = p.q], res |-> "Ok",
                            v |-> from_u8(U, p.v)])
         ELSE With(len(r.bitqueue),
                LAMBDA bitqueue_len :
              With(pop(E, U8, r.bitqueue, bitqueue_len),
                LAMBDA p :
              With(read_aligned(E, U, [r EXCEPT !.bitqueue = p.q],
                                (bits - bitqueue_len) \div 8,
                                from_value(from_u8(U, p.v), bitqueue_len)),
                LAMBDA s1 :
              With(IF s1.res = "Ok"
                   THEN read_unaligned(E, U, s1.r,
                                       (bits - bitqueue_len) % 8, s1.acc)
                   ELSE s1,
                LAMBDA s2 :
                  [r |-> s2.r, res |-> s2.res,
                   v |-> IF s2.res = "Ok" THEN s2.acc.value ELSE zero]))))
    ELSE [r |-> r, res |-> "InvalidInput", v |-> zero]

read(E, U, r, bits) ==
    IF bits <= bits_size(U)
    THEN IF bits <= len(r.bitqueue)
         THEN With(pop(E, U8, r.bitqueue, bits),
                LAMBDA p : [r |-> [r EXCEPT !.bitqueue = p.q], res |-> "Ok",
                            v |-> from_u8(U, p.v)])
         ELSE With(len(r.bitqueue),
                LAMBDA bitqueue_len :
              With(pop(E, U8, r.bitqueue, bitqueue_len),
                LAMBDA p :
              With(read_aligned(E, U, [r EXCEPT !.bitqueue = p.q],
                                (bits - bitqueue_len) \div 8,
                                from_value(from_u8(U, p.v), bitqueue_len)),
                LAMBDA s1 :
              With(IF s1.res = "Ok"
                   THEN read_unaligned(E, U, s1.r,
                                       (bits - bitqueue_len) % 8, s1.acc)
                   ELSE s1,
                LAMBDA s2 :
                  [r |-> s2.r, res |-> s2.res,
                   v |-> IF s2.res = "Ok" THEN s2.acc.value ELSE zero]))))
    ELSE [r |-> r, res |-> "InvalidInput", v |-> zero]

\* skip_aligned: whole bytes are read and thrown away, 8 at a time
RECURSIVE skip_aligned(_, _)
skip_aligned(r, bytes) ==
    IF bytes > 0
    THEN With(read_exact(r, Min({8, bytes})),
              LAMBDA x :
                IF x.res = "Ok"
                THEN skip_aligned(x.r, bytes - Min({8, bytes}))
                ELSE [r |-> x.r, res |-> x.res])
    ELSE [r |-> r, res |-> "Ok"]

\* skip_unaligned fetching a byte also when no bits are left to skip
skip_unaligned_eager(E, r, bits) ==
    With(read_byte(r),
         LAMBDA b :
           IF b.res = "Ok"
           THEN [r |-> [b.r EXCEPT !.bitqueue =
                           pop(E, U8, set(b.v, 8), bits).q],
                 res |-> "Ok"]
           ELSE [r |-> b.r, res |-> b.res])

skip_unaligned(E, r, bits) ==
    IF bits > 0
    THEN With(read_byte(r),
              LAMBDA b :
                IF b.res = "Ok"
                THEN [r |-> [b.r EXCEPT !.bitqueue =
                                pop(E, U8, set(b.v, 8), bits).q],
                      res |-> "Ok"]
                ELSE [r |-> b.r, res |-> b.res])
    ELSE [r |-> r, res |-> "Ok"]

\* skip with `bits -= to_drop` forgotten
skip_no_decrement(E, r, bits) ==
    With(Min({len(r.bitqueue), bits}),
      LAMBDA to_drop :
    With(skip_aligned(IF to_drop # 0
                      THEN [r EXCEPT !.bitqueue = drop(E, U8, @, to_drop)]
                      ELSE r,
                      bits \div 8),
      LAMBDA s1 :
        IF s1.res = "Ok"
        THEN skip_unaligned(E, s1.r, bits % 8)
        ELSE s1))

skip(E, r, bits) ==
    With(Min({len(r.bitqueue), bits}),
      LAMBDA to_drop :
    With(skip_aligned(IF to_drop # 0
                      THEN [r EXCEPT !.bitqueue = drop(E, U8, @, to_drop)]
                      ELSE r,
                      (bits - to_drop) \div 8),
      LAMBDA s1 :
        IF s1.res = "Ok"
        THEN skip_unaligned(E, s1.r, (bits - to_drop) % 8)
        ELSE s1))

\* the per-byte path of read_bytes: n times read::<u8>(8); [r, res, buf]
RECURSIVE read_bytes_each(_, _, _)
read_bytes_each(E, r, n) ==
    IF n = 0
    THEN [r |-> r, res |-> "Ok", buf |-> << >>]
    ELSE With(read(E, U8, r, 8),
           LAMBDA b :
             IF b.res = "Ok"
             THEN With(read_bytes_each(E, b.r, n - 1),
                    LAMBDA rest :
                      [r |-> rest.r, res |-> rest.res,
                       buf |-> IF rest.res = "Ok"
                               THEN <<b.v>> \o rest.buf ELSE << >>])
             ELSE [r |-> b.r, res |-> b.res, buf |-> << >>])

\* read_bytes into a buffer of n bytes: [r, res, buf]
read_bytes(E, r, n) ==
    IF byte_aligned(r)
    THEN read_exact(r, n)
    ELSE read_bytes_each(E, r, n)

\* read_aligned_unary: whole bytes equal to continue_val count 8 each, the
\* first other byte becomes the residual; [r, res, v]
RECURSIVE read_aligned_unary(_, _, _)
read_aligned_unary(r, continue_val, acc) ==
    With(read_byte(r),
         LAMBDA b :
           IF b.res # "Ok"
           THEN [r |-> b.r, res |-> b.res, v |-> 0]
           ELSE IF b.v = continue_val
           THEN read_aligned_unary(b.r, continue_val, acc + 8)
           ELSE [r |-> [b.r EXCEPT !.bitqueue = set(b.v, 8)], res |-> "Ok",
                 v |-> acc])

\* unary_finish forgetting the bits counted in the residual
unary_finish_nobase(E, u, base, ones) ==
    IF u.res = "Ok"
    THEN With(IF ones THEN pop_1(E, U8, u.r.bitqueue)
              ELSE pop_0(E, U8, u.r.bitqueue),
              LAMBDA p : [r |-> [u.r EXCEPT !.bitqueue = p.q], res |-> "Ok",
                          v |-> u.v + p.v])
    ELSE u

\* `read_aligned_unary(..).map(|u| base + u + self.bitqueue.pop_1())`, and
\* the same with pop_0
unary_finish(E, u, base, ones) ==
    IF u.res = "Ok"
    THEN With(IF ones THEN pop_1(E, U8, u.r.bitqueue)
              ELSE pop_0(E, U8, u.r.bitqueue),
              LAMBDA p : [r |-> [u.r EXCEPT !.bitqueue = p.q], res |-> "Ok",
                          v |-> base + u.v + p.v])
    ELSE u

read_unary0(E, r) ==
    IF is_empty(r.bitqueue)
    THEN unary_finish(E, read_aligned_unary(r, LowBits(8), 0), 0, TRUE)
    ELSE IF all_1(r.bitqueue)
    THEN unary_finish(E,
             read_aligned_unary([r EXCEPT !.bitqueue = clear], LowBits(8), 0),
             len(r.bitqueue), TRUE)
    ELSE With(pop_1(E, U8, r.bitqueue),
              LAMBDA p : [r |-> [r EXCEPT !.bitqueue = p.q], res |-> "Ok",
                          v |-> p.v])

read_unary1(E, r) ==
    IF is_empty(r.bitqueue)
    THEN unary_finish(E, read_aligned_unary(r, zero, 0), 0, FALSE)
    ELSE IF all_0(r.bitqueue)
    THEN unary_finish(E,
             read_aligned_unary([r EXCEPT !.bitqueue = clear], zero, 0),
             len(r.bitqueue), FALSE)
    ELSE With(pop_0(E, U8, r.bitqueue),
              LAMBDA p : [r |-> [r EXCEPT !.bitqueue = p.q], res |-> "Ok",
                          v |-> p.v])

BitReader_byte_align(r) == [r EXCEPT !.bitqueue = clear]

into_unread(r) == <<len(r.bitqueue), r.bitqueue.value>>

\* BitReader::read called with the width `bits - 1` of read_signed
read_sub(d, E, S, r) ==
    IF d.res # "Ok"
    THEN [r |-> r, res |-> d.res, v |-> zero]
    ELSE IF d.wide
    THEN IF excessive(d.v, bits_size(S))
         THEN [r |-> r, res |-> "InvalidInput", v |-> zero]
         ELSE read(E, S, r, nat_of(d.v))
    ELSE read(E, S, r, d.v)

\* BitReader<BigEndian>::read_signed and BitReader<LittleEndian>::read_signed
\* in a build with (checked) or without overflow checks
read_signed_build(checked, E, S, r, bits) ==
    IF bits <= bits_size(S)
    THEN IF E = "BE"
         THEN With(read_bit(E, r),
                LAMBDA sgn :
                  IF sgn.res # "Ok"
                  THEN [r |-> sgn.r, res |-> sgn.res, v |-> zero]
                  ELSE With(read_sub(sub_u32(checked, bits, 1), E, S, sgn.r),
                         LAMBDA u :
                           IF u.res = "Ok" /\ sgn.v
                           THEN [u EXCEPT !.v = as_negative(S, @, bits)]
                           ELSE u))
         ELSE With(read_sub(sub_u32(checked, bits, 1), E, S, r),
                LAMBDA u :
                  IF u.res # "Ok"
                  THEN u
                  ELSE With(read_bit(E, u.r),
                         LAMBDA sgn :
                           IF sgn.res # "Ok"
                           THEN [r |-> sgn.r, res |-> sgn.res, v |-> zero]
                           ELSE [r |-> sgn.r, res |-> "Ok",
                                 v |-> IF sgn.v
                                       THEN as_negative(S, u.v, bits)
                                       ELSE u.v]))
    ELSE [r |-> r, res |-> "InvalidInput", v |-> zero]

\* read_signed for bits >= 1, where both builds do the same
read_signed(E, S, r, bits) == read_signed_build(TRUE, E, S, r, bits)

\* the outcome of a call that returns a reader: [r, res, v]
NewReader(r, res, v) == [r |-> r, res |-> res, v |-> v]

\* create_sub_reader keeping the partial byte at the bottom of its byte
sub_reader_unshifted(E, r, bytes, remainder_bits) ==
    IF remainder_bits > 0
    THEN With(read(E, U8, r, remainder_bits),
           LAMBDA first :
             IF first.res # "Ok"
             THEN [r |-> first.r, res |-> first.res, buf |-> << >>]
             ELSE With(read_bytes(E, first.r, bytes),
                    LAMBDA rest :
                      [r |-> rest.r, res |-> rest.res,
                       buf |-> IF rest.res = "Ok"
                               THEN <<first.v>> \o rest.buf
                               ELSE << >>]))
    ELSE read_bytes(E, r, bytes)

\* create_sub_reader up to the new cursor: the partial byte read with
\* read::<u8>(remainder_bits) and shifted to the top, then the whole bytes;
\* [r, res, buf]
sub_reader_bytes(E, r, bytes, remainder_bits) ==
    IF remainder_bits > 0
    THEN With(read(E, U8, r, remainder_bits),
           LAMBDA first :
             IF first.res # "Ok"
             THEN [r |-> first.r, res |-> first.res, buf |-> << >>]
             ELSE With(read_bytes(E, first.r, bytes),
                    LAMBDA rest :
                      [r |-> rest.r, res |-> rest.res,
                       buf |-> IF rest.res = "Ok"
                               THEN <<Shl(U8, first.v, 8 - remainder_bits)>>
                                    \o rest.buf
                               ELSE << >>]))
    ELSE read_bytes(E, r, bytes)

\* BitReader::create_sub_reader: the reader returned is a
\* BitReader<LittleEndian> over the new bytes, its partial byte shaved off
create_sub_reader(E, r, bits) ==
    With(sub_reader_bytes(E, r, bits \div 8, bits % 8),
      LAMBDA x :
        IF x.res # "Ok"
        THEN NewReader(x.r, x.res, zero)
        ELSE IF bits % 8 > 0
        THEN With(skip("LE", BitReader_new(x.buf), 8 - (bits % 8)),
               LAMBDA new_reader :
                 IF new_reader.res = "Ok"
                 THEN NewReader(x.r, "Ok", new_reader.r)
                 ELSE NewReader(x.r, new_reader.res, zero))
        ELSE NewReader(x.r, "Ok", BitReader_new(x.buf)))

\* the loop of copy_reader_to_writer ending on every error of read_exact
RECURSIVE copy_bytes_any_error(_, _)
copy_bytes_any_error(r, w) ==
    With(read_exact(r, 1),
      LAMBDA x :
        IF x.res # "Ok"
        THEN [r |-> x.r, w |-> w, res |-> "Ok"]
        ELSE With(write_bytes("LE", w, x.buf),
               LAMBDA y :
                 IF y.res = "Ok"
                 THEN copy_bytes_any_error(x.r, y.w)
                 ELSE [r |-> x.r, w |-> y.w, res |-> y.res]))

\* the loop of copy_reader_to_writer: one byte at a time from r.reader to
\* w.write_bytes, until read_exact reports the end of the source; [r, w, res]
RECURSIVE copy_bytes(_, _)
copy_bytes(r, w) ==
    With(read_exact(r, 1),
      LAMBDA x :
        IF x.res = "IoError"
        THEN [r |-> x.r, w |-> w, res |-> "Ok"]
        ELSE IF x.res # "Ok"
        THEN [r |-> x.r, w |-> w, res |-> x.res]
        ELSE With(write_bytes("LE", w, x.buf),
               LAMBDA y :
                 IF y.res = "Ok"
                 THEN copy_bytes(x.r, y.w)
                 ELSE [r |-> x.r, w |-> y.w, res |-> y.res]))

\* BitReader::copy_reader_to_writer, w a BitWriter<LittleEndian>; [r, w, res]
copy_reader_to_writer(E, r, w) ==
    With(len(r.bitqueue),
      LAMBDA bq_len :
        IF bq_len > 0
        THEN With(pop(E, U8, r.bitqueue, bq_len),
               LAMBDA p :
             With(write("LE", U8, w, bq_len, p.v),
               LAMBDA y :
                 IF y.res = "Ok"
                 THEN copy_bytes([r EXCEPT !.bitqueue = p.q], y.w)
                 ELSE [r |-> [r EXCEPT !.bitqueue = p.q], w |-> y.w,
                       res |-> y.res]))
        ELSE copy_bytes(r, w))

\* concatenate_reader without the front padding
concatenate_unpadded(w, bit_offset) == WOk(w)

\* the writer of concatenate_reader after the front padding: [w, res]
concatenate_padding(w, bit_offset) ==
    IF bit_offset > 0
    THEN write("LE", Ty("i32"), w, 8 - bit_offset, zero)
    ELSE WOk(w)

\* BitReader::concatenate_reader: [lhs, rhs, res, v], v the reader returned,
\* a BitReader<LittleEndian> over the bytes the Vec was given (the bits left
\* in the writer when it goes out of scope are not part of them)
concatenate_reader(E, lhs, rhs_) ==
    With((len(lhs.bitqueue) + len(rhs_.bitqueue)) % 8,
      LAMBDA bit_offset :
    With(concatenate_padding(
             BitWriter_new(Len(lhs.src) + Len(rhs_.src) + 1), bit_offset),
      LAMBDA w0 :
        IF w0.res # "Ok"
        THEN [lhs |-> lhs, rhs |-> rhs_, res |-> w0.res, v |-> zero]
        ELSE With(copy_reader_to_writer(E, lhs, w0.w),
               LAMBDA c1 :
                 IF c1.res # "Ok"
                 THEN [lhs |-> c1.r, rhs |-> rhs_, res |-> c1.res, v |-> zero]
                 ELSE With(copy_reader_to_writer(E, rhs_, c1.w),
                        LAMBDA c2 :
                          IF c2.res # "Ok"
                          THEN [lhs |-> c1.r, rhs |-> c2.r, res |-> c2.res,
                                v |-> zero]
                          ELSE IF bit_offset > 0
                          THEN With(skip("LE", BitReader_new(c2.w.sink),
                                         8 - bit_offset),
                                 LAMBDA n :
                                   [lhs |-> c1.r, rhs |-> c2.r, res |-> n.res,
                                    v |-> IF n.res = "Ok" THEN n.r ELSE zero])
                          ELSE [lhs |-> c1.r, rhs |-> c2.r, res |-> "Ok",
                                v |-> BitReader_new(c2.w.sink)]))))

(***************************************************************************)
(* Huffman trees (src/src/huffman.rs).  A WipHuffmanTree is                *)
(* [kind |-> "Empty"], [kind |-> "Leaf", v |-> symbol] or                  *)
(* [kind |-> "Tree", zero |-> t0, one |-> t1]; a ReadHuffmanTree has the   *)
(* last two shapes only.  A specification is a sequence of                 *)
(* [symbol, code], a code a sequence of u8 elements.                       *)
(***************************************************************************)
new_empty == [kind |-> "Empty"]

new_leaf(value) == [kind |-> "Leaf", v |-> value]

new_tree == [kind |-> "Tree", zero |-> new_empty, one |-> new_empty]

Tree(zero_, one_) == [kind |-> "Tree", zero |-> zero_, one |-> one_]

\* into_read_tree that forgives a missing one-branch
RECURSIVE into_read_tree_lenient(_)
into_read_tree_lenient(t) ==
    IF t.kind = "Empty"
    THEN [t |-> t, res |-> "MissingLeaf"]
    ELSE IF t.kind = "Leaf"
    THEN [t |-> t, res |-> "Ok"]
    ELSE With(into_read_tree_lenient(t.zero),
           LAMBDA z :
             IF z.res # "Ok"
             THEN z
             ELSE With(into_read_tree_lenient(t.one),
                    LAMBDA o :
                      IF o.res # "Ok"
                      THEN z
                      ELSE [t |-> Tree(z.t, o.t), res |-> "Ok"]))

\* WipHuffmanTree::into_read_tree: [t, res]
RECURSIVE into_read_tree(_)
into_read_tree(t) ==
    IF t.kind = "Empty"
    THEN [t |-> t, res |-> "MissingLeaf"]
    ELSE IF t.kind = "Leaf"
    THEN [t |-> t, res |-> "Ok"]
    ELSE With(into_read_tree(t.zero),
           LAMBDA z :
             IF z.res # "Ok"
             THEN z
             ELSE With(into_read_tree(t.one),
                    LAMBDA o :
                      IF o.res # "Ok"
                      THEN o
                      ELSE [t |-> Tree(z.t, o.t), res |-> "Ok"]))

\* add replacing a leaf that is already there
RECURSIVE add_over_leaf(_, _, _)
add_over_leaf(t, code, symbol) ==
    IF t.kind = "Empty"
    THEN IF Len(code) = 0
         THEN [t |-> new_leaf(symbol), res |-> "Ok"]
         ELSE add_over_leaf(new_tree, code, symbol)
    ELSE IF t.kind = "Leaf"
    THEN IF Len(code) = 0
         THEN [t |-> new_leaf(symbol), res |-> "Ok"]
         ELSE [t |-> t, res |-> "OrphanedLeaf"]
    ELSE IF Len(code) = 0
    THEN [t |-> t, res |-> "DuplicateLeaf"]
    ELSE IF code[1] = 0
    THEN With(add_over_leaf(t.zero, Tail(code), symbol),
              LAMBDA x : [t |-> [t EXCEPT !.zero = x.t], res |-> x.res])
    ELSE IF code[1] = 1
    THEN With(add_over_leaf(t.one, Tail(code), symbol),
              LAMBDA x : [t |-> [t EXCEPT !.one = x.t], res |-> x.res])
    ELSE [t |-> t, res |-> "InvalidBit"]

\* add that names the two conflicts at a leaf the other way round
RECURSIVE add_leaf_swapped(_, _, _)
add_leaf_swapped(t, code, symbol) ==
    IF t.kind = "Empty"
    THEN IF Len(code) = 0
         THEN [t |-> new_leaf(symbol), res |-> "Ok"]
         ELSE add_leaf_swapped(new_tree, code, symbol)
    ELSE IF t.kind = "Leaf"
    THEN [t |-> t,
          res |-> IF Len(code) = 0 THEN "OrphanedLeaf" ELSE "DuplicateLeaf"]
    ELSE IF Len(code) = 0
    THEN [t |-> t, res |-> "DuplicateLeaf"]
    ELSE IF code[1] = 0
    THEN With(add_leaf_swapped(t.zero, Tail(code), symbol),
              LAMBDA x : [t |-> [t EXCEPT !.zero = x.t], res |-> x.res])
    ELSE IF code[1] = 1
    THEN With(add_leaf_swapped(t.one, Tail(code), symbol),
              LAMBDA x : [t |-> [t EXCEPT !.one = x.t], res |-> x.res])
    ELSE [t |-> t, res |-> "InvalidBit"]

\* WipHuffmanTree::add: [t, res], t the tree as the call leaves it
RECURSIVE add(_, _, _)
add(t, code, symbol) ==
    IF t.kind = "Empty"
    THEN IF Len(code) = 0
         THEN [t |-> new_leaf(symbol), res |-> "Ok"]
         ELSE add(new_tree, code, symbol)
    ELSE IF t.kind = "Leaf"
    THEN [t |-> t,
          res |-> IF Len(code) = 0 THEN "DuplicateLeaf" ELSE "OrphanedLeaf"]
    ELSE IF Len(code) = 0
    THEN [t |-> t, res |-> "DuplicateLeaf"]
    ELSE IF code[1] = 0
    THEN With(add(t.zero, Tail(code), symbol),
              LAMBDA x : [t |-> [t EXCEPT !.zero = x.t], res |-> x.res])
    ELSE IF code[1] = 1
    THEN With(add(t.one, Tail(code), symbol),
              LAMBDA x : [t |-> [t EXCEPT !.one = x.t], res |-> x.res])
    ELSE [t |-> t, res |-> "InvalidBit"]

\* the loop of ReadHuffmanTree::new: `tree.add(code, symbol)?` per pair
RECURSIVE add_all(_, _)
add_all(tree, values) ==
    IF values = << >>
    THEN [t |-> tree, res |-> "Ok"]
    ELSE With(add(tree, Head(values).code, Head(values).symbol),
              LAMBDA x :
                IF x.res = "Ok" THEN add_all(x.t, Tail(values)) ELSE x)

\* ReadHuffmanTree::new: [t, res], t the tree when res is "Ok"
ReadHuffmanTree_new(values) ==
    With(add_all(new_empty, values),
         LAMBDA x : IF x.res = "Ok" THEN into_read_tree(x.t) ELSE x)

(***************************************************************************)
(* WriteHuffmanTree (src/src/huffman.rs): two maps from symbol to          *)
(* <<code length, code value>>, one per bit order; a map is a function     *)
(* over the symbols it holds.                                              *)
(***************************************************************************)
\* `bit as u64` of a u8 element of a code
as_u64(n) == { i \in LowBits(8) : (n \div (2 ^ i)) % 2 = 1 }

\* the inner loop of WriteHuffmanTree::new without the element check
RECURSIVE encode_unchecked(_, _, _)
encode_unchecked(E, q, code) ==
    IF code = << >>
    THEN [res |-> "Ok", q |-> q]
    ELSE IF Len(code) = 1
    THEN [res |-> "Ok",
          q |-> push(E, Ty("u64"), q, 1, as_u64(Head(code) % 2))]
    ELSE With(encode_unchecked(E, q, SubSeq(code, 1, Len(code) \div 2)),
           LAMBDA a :
             encode_unchecked(E, a.q,
                 SubSeq(code, Len(code) \div 2 + 1, Len(code))))

\* the inner loop of WriteHuffmanTree::new for the queue of one bit order:
\* [res, q], every element in turn checked, then pushed as one bit (the
\* elements are taken in order, one half of the code after the other)
RECURSIVE encode(_, _, _)
encode(E, q, code) ==
    IF code = << >>
    THEN [res |-> "Ok", q |-> q]
    ELSE IF Len(code) = 1
    THEN IF (Head(code) # 0) /\ (Head(code) # 1)
         THEN [res |-> "InvalidBit", q |-> q]
         ELSE [res |-> "Ok",
               q |-> push(E, Ty("u64"), q, 1, as_u64(Head(code)))]
    ELSE With(encode(E, q, SubSeq(code, 1, Len(code) \div 2)),
           LAMBDA a :
             IF a.res # "Ok"
             THEN a
             ELSE encode(E, a.q,
                      SubSeq(code, Len(code) \div 2 + 1, Len(code))))

\* BTreeMap::entry(k).or_insert(v) keeping the entry that came last
or_insert_last(map, k, v) ==
    [x \in DOMAIN map \cup {k} |-> IF x = k THEN v ELSE map[x]]

\* BTreeMap::entry(k).or_insert(v): an entry that is there stays
or_insert(map, k, v) ==
    [x \in DOMAIN map \cup {k} |-> IF x \in DOMAIN map THEN map[x] ELSE v]

NoTable == [x \in {} |-> <<0, zero>>]

\* the outer loop of WriteHuffmanTree::new storing the big-endian value in
\* both tables
RECURSIVE write_tree_loop_one_order(_, _, _)
write_tree_loop_one_order(be, le, values) ==
    IF values = << >>
    THEN [res |-> "Ok", big_endian |-> be, little_endian |-> le]
    ELSE With(encode("BE", BitQueue_new, Head(values).code),
           LAMBDA b :
             IF b.res # "Ok"
             THEN [res |-> b.res, big_endian |-> NoTable,
                   little_endian |-> NoTable]
             ELSE write_tree_loop_one_order(
                      or_insert(be, Head(values).symbol,
                                <<Len(Head(values).code), b.q.value>>),
                      or_insert(le, Head(values).symbol,
                                <<Len(Head(values).code), b.q.value>>),
                      Tail(values)))

\* the outer loop of WriteHuffmanTree::new: [res, big_endian, little_endian]
RECURSIVE write_tree_loop(_, _, _)
write_tree_loop(be, le, values) ==
    IF values = << >>
    THEN [res |-> "Ok", big_endian |-> be, little_endian |-> le]
    ELSE With(encode("BE", BitQueue_new, Head(values).code),
           LAMBDA b :
             IF b.res # "Ok"
             THEN [res |-> b.res, big_endian |-> NoTable,
                   little_endian |-> NoTable]
             ELSE write_tree_loop(
                      or_insert(be, Head(values).symbol,
                                <<Len(Head(values).code), b.q.value>>),
                      or_insert(le, Head(values).symbol,
                                <<Len(Head(values).code),
                                  encode("LE", BitQueue_new,
                                         Head(values).code).q.value>>),
                      Tail(values)))

WriteHuffmanTree_new(values) == write_tree_loop(NoTable, NoTable, values)

has_symbol(tree, symbol) == symbol \in DOMAIN tree.big_endian

\* get_be / get_le panic on a symbol the table does not hold
get_be(tree, symbol) == tree.big_endian[symbol]

get_le(tree, symbol) == tree.little_endian[symbol]

(***************************************************************************)
(* Huffman codes on a stream.  write_huffman (src/src/write.rs) and        *)
(* read_huffman (src/src/read.rs) work on compiled forms that huffman.rs   *)
(* under src/ does not build: the list of (bits, value) pairs of a symbol  *)
(* in the bit order of the writer, and the lookup tables of the reader,    *)
(* indexed by the state of the bit queue and then by the next byte.  An    *)
(* entry of a lookup table is                                              *)
(*   [kind |-> "Done", value, queue_val, queue_bits],                      *)
(*   [kind |-> "Continue", tree |-> table of 256 entries] or               *)
(*   [kind |-> "InvalidState"].                                            *)
(***************************************************************************)
\* tree.get(symbol): the pairs to write, one pair for a code of one field
get(E, tree, symbol) ==
    << IF E = "BE" THEN get_be(tree, symbol) ELSE get_le(tree, symbol) >>

\* the loop of write_huffman: `self.write(bits, value)?` per pair
RECURSIVE write_pairs(_, _, _)
write_pairs(E, w, pairs) ==
    IF pairs = << >>
    THEN WOk(w)
    ELSE WThen(write(E, Ty("u64"), w, Head(pairs)[1], Head(pairs)[2]),
               LAMBDA w2 : write_pairs(E, w2, Tail(pairs)))

\* write_huffman(tree, symbol)
write_huffman(E, w, tree, symbol) == write_pairs(E, w, get(E, tree, symbol))

\* a u8 as an index
as_usize(v) == CHOOSE n \in 0 .. 255 : as_u64(n) = v

\* BitQueue::to_state: the bits held, below a leading 1
to_state(q) == (2 ^ q.bits) + as_usize(q.value)

\* the queue whose state is i, 1 <= i <= 255
StateQueue(i) ==
    With(Max({ b \in 0 .. 7 : 2 ^ b <= i }),
         LAMBDA b : from_value(as_u64(i - 2 ^ b), b))

Done(value, queue_val, queue_bits) ==
    [kind |-> "Done", value |-> value, queue_val |-> queue_val,
     queue_bits |-> queue_bits]

Continue(tree) == [kind |-> "Continue", tree |-> tree]

InvalidState == [kind |-> "InvalidState"]

\* the entry for a queue of bits still to be walked from a node of the
\* ReadHuffmanTree: the leaf reached and the bits left, or the table for
\* the next byte when the queue runs out first
RECURSIVE compile_queue(_, _, _)
compile_queue(E, queue, tree) ==
    IF tree.kind = "Leaf"
    THEN Done(tree.v, queue.value, len(queue))
    ELSE IF is_empty(queue)
    THEN Continue([byte \in 0 .. 255 |->
                      compile_queue(E, from_value(as_u64(byte), 8), tree)])
    ELSE With(pop(E, U8, queue, 1),
              LAMBDA x :
                compile_queue(E, x.q,
                              IF is_zero(x.v) THEN tree.zero ELSE tree.one))

\* the table a reader of bit order E starts from: one entry per state of
\* its bit queue
compile_read_tree(E, tree) ==
    [i \in 0 .. 255 |->
        IF i = 0 THEN InvalidState ELSE compile_queue(E, StateQueue(i), tree)]

\* the loop of read_huffman whose Done arm leaves the bit queue alone
RECURSIVE read_huffman_loop_no_set(_, _)
read_huffman_loop_no_set(r, result) ==
    IF result.kind = "Done"
    THEN NewReader(r, "Ok", result.value)
    ELSE IF result.kind = "Continue"
    THEN With(read_byte(r),
           LAMBDA b :
             IF b.res # "Ok"
             THEN NewReader(b.r, b.res, 0)
             ELSE read_huffman_loop_no_set(b.r, result.tree[as_usize(b.v)]))
    ELSE NewReader(r, "Panic", 0)

\* the loop of read_huffman fetching no byte on Continue
RECURSIVE read_huffman_loop_no_fetch(_, _)
read_huffman_loop_no_fetch(r, result) ==
    IF result.kind = "Done"
    THEN NewReader([r EXCEPT !.bitqueue =
                                 set(result.queue_val, result.queue_bits)],
                   "Ok", result.value)
    ELSE IF result.kind = "Continue"
    THEN read_huffman_loop_no_fetch(r, result.tree[0])
    ELSE NewReader(r, "Panic", 0)

\* the loop of read_huffman: [r, res, v], res "Panic" for the panic of the
\* InvalidState arm
RECURSIVE read_huffman_loop(_, _)
read_huffman_loop(r, result) ==
    IF result.kind = "Done"
    THEN NewReader([r EXCEPT !.bitqueue =
                                 set(result.queue_val, result.queue_bits)],
                   "Ok", result.value)
    ELSE IF result.kind = "Continue"
    THEN With(read_byte(r),
           LAMBDA b :
             IF b.res # "Ok"
             THEN NewReader(b.r, b.res, 0)
             ELSE read_huffman_loop(b.r, result.tree[as_usize(b.v)]))
    ELSE NewReader(r, "Panic", 0)

\* read_huffman(tree)
read_huffman(r, tree) == read_huffman_loop(r, tree[to_state(r.bitqueue)])

(***************************************************************************)
(* The state machine.  A run drives one writer (side "w"), one reader      *)
(* (side "r"), a writer whose output a reader then reads (side "rt"), or   *)
(* the compilation of a Huffman specification (side "h").                  *)
(*   endian    the bit order E of the reader / writer                      *)
(*   wr, rd    the BitWriter and the BitReader                             *)
(*   rhs       a second BitReader, the argument of concatenate_reader      *)
(*   accepted  the bits the successful writer calls were given, in order   *)
(*   consumed  the number of bits the successful reader calls delivered,   *)
(*             skipped or discarded                                        *)
(*   clean     no call has failed so far                                   *)
(*   nops      the number of calls made                                    *)
(*   last      the last call: its name, arguments, the reader / writer it  *)
(*             started from, its result and the value it returned          *)
(*   log, idx  the fields written, and how many were read back ("rt");     *)
(*             the Huffman specification being assembled ("h")             *)
(***************************************************************************)
VARIABLES side, endian, wr, rd, rhs, accepted, consumed, clean, nops, last,
          log, idx

vars ==
    <<side, endian, wr, rd, rhs, accepted, consumed, clean, nops, last, log,
      idx>>

\* bounds of the model
MaxOps == 2

SinkCap == 64

MaxBytes == 2

NoCall == [op |-> "none", T |-> "-", bits |-> 0, value |-> zero,
           pre |-> BitQueue_new, res |-> "Ok", out |-> zero]

Call(op, T, bits, value, pre, res, out) ==
    [op |-> op, T |-> T, bits |-> bits, value |-> value, pre |-> pre,
     res |-> res, out |-> out]

\* the 8-bit pattern 1010_0101 repeated over a w-bit word
Pattern(w) == { i \in LowBits(w) : (i % 8) \in {0, 2, 5, 7} }

Bit(v, i) == IF i \in v THEN 1 ELSE 0

\* the n bits of a field of value v in stream order: the most significant
\* first under BigEndian, the least significant first under LittleEndian
FieldBits(E, n, v) ==
    [j \in 1 .. n |-> IF E = "BE" THEN Bit(v, n - j) ELSE Bit(v, j - 1)]

\* the value of a field whose bits in stream order are bs
FieldValue(E, bs) ==
    LET n == Len(bs)
    IN  { i \in LowBits(n) : (IF E = "BE" THEN bs[n - i] ELSE bs[i + 1]) = 1 }

Repeat(b, n) == [j \in 1 .. n |-> b]

\* the bytes a bit sequence fills, and the partial byte left over
PackedBytes(E, bs) ==
    [k \in 1 .. (Len(bs) \div 8) |->
        FieldValue(E, SubSeq(bs, 8 * (k - 1) + 1, 8 * k))]

PackedRest(E, bs) ==
    LET k == Len(bs) % 8
    IN  [value |-> FieldValue(E, SubSeq(bs, Len(bs) - k + 1, Len(bs))),
         bits  |-> k]

\* the inputs of write::<U>(bits, value): every residue of the width modulo
\* 8, the widths around each type's size, values that fit and that do not
WriteWidths(T) ==
    IF T.w = 8 THEN {0, 1, 3, 5, 7, 8, 9}
    ELSE IF T.w = 16 THEN {10, 14, 15, 16, 17}
    ELSE IF T.w = 32 THEN {20, 31, 32, 33}
    ELSE {36, 63, 64, 65}

WriteValues(T, n) ==
    { LowBits(n) \cap LowBits(T.w), Pattern(T.w) \cap LowBits(n),
      {n} \cap LowBits(T.w) }

InitCommon ==
    /\ endian \in Endians
    /\ wr = BitWriter_new(SinkCap)
    /\ rd = BitReader_new(<< >>)
    /\ rhs = BitReader_new(<< >>)
    /\ accepted = << >>
    /\ consumed = 0
    /\ clean = TRUE
    /\ nops = 0
    /\ last = NoCall
    /\ log = << >>
    /\ idx = 0

InitW == side = "w" /\ InitCommon

\* the writer makes one call: r is its outcome, bs the bits it was given
WriterStep(op, T, bits, value, r, bs) ==
    /\ side = "w"
    /\ nops < MaxOps
    /\ wr' = r.w
    /\ last' = Call(op, T, bits, value, wr, r.res, zero)
    /\ accepted' = IF r.res = "Ok" THEN accepted \o bs ELSE accepted
    /\ clean' = (clean /\ r.res = "Ok")
    /\ nops' = nops + 1
    /\ UNCHANGED <<side, endian, rd, rhs, consumed, log, idx>>

WriteBit ==
    \E bit \in BOOLEAN :
        WriterStep("write_bit", "-", 1, IF bit THEN one ELSE zero,
                   write_bit(endian, wr, bit), <<IF bit THEN 1 ELSE 0>>)

Write ==
    \E U \in UnsignedTypes :
        \E bits \in WriteWidths(U) :
            \E value \in WriteValues(U, bits) :
                WriterStep("write", U.name, bits, value,
                           write(endian, U, wr, bits, value),
                           FieldBits(endian, bits, value))

NextWrite == WriteBit \/ Write

SpecWrite == InitW /\ [][NextWrite]_vars

\* the inputs of write_signed::<S>(bits, value): 0, -1, the largest and the
\* smallest value of a bits-bit field, and their neighbours outside it
SignedWidths(T) ==
    IF T.w = 8 THEN {1, 4, 8, 9}
    ELSE IF T.w = 16 THEN {12, 16}
    ELSE IF T.w = 32 THEN {32}
    ELSE {64, 65}

SignedValues(T, n) ==
    { zero, LowBits(T.w), LowBits(n - 1) \cap LowBits(T.w),
      LowBits(T.w) \ LowBits(n - 1), {n - 1} \cap LowBits(T.w),
      LowBits(T.w) \ {n - 1} }

\* value is in [-2^(bits-1), 2^(bits-1) - 1]: bits bits-1 and up all agree
InRange(T, value, bits) ==
    LET hi == (bits - 1) .. (T.w - 1)
    IN  hi \subseteq value \/ hi \cap value = {}

\* the bits of a signed field in stream order: the sign bit before the
\* bits-1 low bits under BigEndian, after them under LittleEndian
SignedBits(E, T, bits, value) ==
    IF E = "BE"
    THEN <<IF is_negative(T, value) THEN 1 ELSE 0>>
         \o FieldBits(E, bits - 1, value)
    ELSE FieldBits(E, bits - 1, value)
         \o <<IF is_negative(T, value) THEN 1 ELSE 0>>

WriteSigned ==
    \E S \in SignedTypes :
        \E bits \in SignedWidths(S) :
            \E value \in SignedValues(S, bits) :
                WriterStep("write_signed", S.name, bits, value,
                           write_signed(endian, S, wr, bits, value),
                           SignedBits(endian, S, bits, value))

\* 0xB7, 0x01, 0xFF, 0x5A: the bytes write_bytes is given
SampleBytes == << {0, 1, 2, 4, 5, 7}, {0}, LowBits(8), {1, 3, 4, 6} >>

RECURSIVE BytesBits(_, _)
BytesBits(E, buf) ==
    IF buf = << >> THEN << >>
    ELSE FieldBits(E, 8, Head(buf)) \o BytesBits(E, Tail(buf))

WriteBytes ==
    \E n \in 0 .. MaxBytes :
        WriterStep("write_bytes", "-", 8 * n, zero,
                   write_bytes(endian, wr, SubSeq(SampleBytes, 1, n)),
                   BytesBits(endian, SubSeq(SampleBytes, 1, n)))

UnaryLengths == {0, 1, 7, 8, 31, 32, 33, 63, 64, 65, 128, 130}

WriteUnary0 ==
    \E n \in UnaryLengths :
        WriterStep("write_unary0", "-", n, zero,
                   write_unary0(endian, wr, n), Repeat(1, n) \o <<0>>)

WriteUnary1 ==
    \E n \in UnaryLengths :
        WriterStep("write_unary1", "-", n, zero,
                   write_unary1(endian, wr, n), Repeat(0, n) \o <<1>>)

WriterByteAlign ==
    WriterStep("byte_align", "-", 0, zero, BitWriter_byte_align(endian, wr),
               Repeat(0, (8 - len(wr.bitqueue)) % 8))

NextSigned == WriteBit \/ WriteSigned

SpecSigned == InitW /\ [][NextSigned]_vars

NextW ==
    \/ WriteBit
    \/ Write
    \/ WriteSigned
    \/ WriteBytes
    \/ WriteUnary0
    \/ WriteUnary1
    \/ WriterByteAlign

SpecW == InitW /\ [][NextW]_vars

\* write::<u8>(bits, value) for every width below a byte: the writer is
\* left at every bit offset
WriteShort ==
    \E bits \in 1 .. 7 :
        WriterStep("write", "u8", bits, Pattern(8) \cap LowBits(bits),
                   write(endian, U8, wr, bits, Pattern(8) \cap LowBits(bits)),
                   FieldBits(endian, bits, Pattern(8) \cap LowBits(bits)))

\* the writer without its signed fields
NextPlain ==
    \/ WriteBit
    \/ WriteShort
    \/ WriteBytes
    \/ WriteUnary0
    \/ WriteUnary1
    \/ WriterByteAlign

SpecPlain == InitW /\ [][NextPlain]_vars

(***************************************************************************)
(* The reader side: a reader over one of the sample sources.               *)
(***************************************************************************)
SrcLen == 10

\* 0x00, 0xFF, 0xB7
SrcBytes == { zero, LowBits(8), {0, 1, 2, 4, 5, 7} }

\* a, a, b, a, a, b, ... : runs of equal bytes (for the unary fast path)
\* and mixed bytes
Sources ==
    { [i \in 1 .. SrcLen |-> IF i % 3 = 0 THEN b ELSE a] :
        a \in SrcBytes, b \in SrcBytes }

ReadWidths(T) ==
    IF T.w = 8 THEN {0, 1, 3, 5, 7, 8, 9}
    ELSE IF T.w = 16 THEN {10, 14, 16, 17}
    ELSE IF T.w = 32 THEN {20, 32, 33}
    ELSE {36, 63, 64, 65}

SkipLengths == {0, 3, 8, 13, 64, 70}

InitR ==
    /\ side = "r"
    /\ endian \in Endians
    /\ wr = BitWriter_new(SinkCap)
    /\ \E src \in Sources : rd = BitReader_new(src)
    /\ rhs = BitReader_new(<< >>)
    /\ accepted = << >>
    /\ consumed = 0
    /\ clean = TRUE
    /\ nops = 0
    /\ last = NoCall
    /\ log = << >>
    /\ idx = 0

\* the reader makes one call: r is its outcome, n the bits it consumes
ReaderStep(op, T, bits, r, n) ==
    /\ side = "r"
    /\ nops < MaxOps
    /\ rd' = r.r
    /\ last' = Call(op, T, bits, zero, rd, r.res, r.v)
    /\ consumed' = IF r.res = "Ok" THEN consumed + n ELSE consumed
    /\ clean' = (clean /\ r.res = "Ok")
    /\ nops' = nops + 1
    /\ UNCHANGED <<side, endian, wr, rhs, accepted, log, idx>>

\* a unary read consumes the run it returns and its terminating bit
UnaryStep(op, r) == ReaderStep(op, "-", 0, r, r.v + 1)

\* the outcome [r, res] of skip, which returns no value
Skipped(x) == [r |-> x.r, res |-> x.res, v |-> zero]

\* the outcome [r, res, buf] of read_bytes, the bytes as the value read
BytesRead(x) == [r |-> x.r, res |-> x.res, v |-> x.buf]

ReadBit == ReaderStep("read_bit", "-", 1, read_bit(endian, rd), 1)

Read ==
    \E U \in UnsignedTypes :
        \E bits \in ReadWidths(U) :
            ReaderStep("read", U.name, bits, read(endian, U, rd, bits), bits)

ReadSigned ==
    \E S \in SignedTypes :
        \E bits \in SignedWidths(S) :
            ReaderStep("read_signed", S.name, bits,
                       read_signed(endian, S, rd, bits), bits)

Skip ==
    \E bits \in SkipLengths :
        ReaderStep("skip", "-", bits, Skipped(skip(endian, rd, bits)), bits)

ReadBytes ==
    \E n \in 0 .. MaxBytes :
        ReaderStep("read_bytes", "-", 8 * n,
                   BytesRead(read_bytes(endian, rd, n)), 8 * n)

ReadUnary0 == UnaryStep("read_unary0", read_unary0(endian, rd))

ReadUnary1 == UnaryStep("read_unary1", read_unary1(endian, rd))

ReaderByteAlign ==
    ReaderStep("byte_align", "-", 0,
               [r |-> BitReader_byte_align(rd), res |-> "Ok", v |-> zero],
               len(rd.bitqueue))

NextR ==
    \/ ReadBit
    \/ Read
    \/ ReadSigned
    \/ Skip
    \/ ReadBytes
    \/ ReadUnary0
    \/ ReadUnary1
    \/ ReaderByteAlign

SpecR == InitR /\ [][NextR]_vars

\* a writer or a reader, each making its own calls
InitAlign == InitW \/ InitR

NextAlign == NextW \/ NextR

SpecAlign == InitAlign /\ [][NextAlign]_vars

\* whole bytes written or read at the bit offsets left by bits and fields
NextBytes ==
    \/ WriteBit
    \/ Write
    \/ WriteBytes
    \/ ReadBit
    \/ Read
    \/ ReadBytes

SpecBytes == InitAlign /\ [][NextBytes]_vars

(***************************************************************************)
(* Readers made from readers: create_sub_reader on rd, and                 *)
(* concatenate_reader on rd and rhs.  rhs is first advanced into a byte,   *)
(* rd by its own reads.                                                    *)
(***************************************************************************)
\* the sources of rhs: none, or 0xB7, 0x01, 0xFF
RhsSources == { SubSeq(SampleBytes, 1, n) : n \in {0, 3} }

\* the sources of rd whose bytes are not all palindromes: 0xB7 comes first
SubSources == { src \in Sources : src[1] = {0, 1, 2, 4, 5, 7} }

SubLengths == {0, 1, 3, 7, 8, 9, 13, 16, 21}

InitSub ==
    /\ side = "r"
    /\ endian \in Endians
    /\ wr = BitWriter_new(SinkCap)
    /\ \E src \in SubSources : rd = BitReader_new(src)
    /\ \E src \in RhsSources : rhs = BitReader_new(src)
    /\ accepted = << >>
    /\ consumed = 0
    /\ clean = TRUE
    /\ nops = 0
    /\ last = NoCall
    /\ log = << >>
    /\ idx = 0

\* rhs.read::<u8>(k) on the untouched rhs: 8 - k bits stay cached
RhsRead ==
    /\ side = "r"
    /\ rhs.pos = 0
    /\ rhs.src # << >>
    /\ \E k \in 1 .. 7 : rhs' = read(endian, U8, rhs, k).r
    /\ UNCHANGED <<side, endian, wr, rd, accepted, consumed, clean, nops,
                   last, log, idx>>

CreateSubReader ==
    \E bits \in SubLengths :
        ReaderStep("create_sub_reader", "-", bits,
                   create_sub_reader(endian, rd, bits), bits)

\* the bits a reader has not delivered yet
Unread(r) == 8 * (Len(r.src) - r.pos) + len(r.bitqueue)

\* rd.concatenate_reader(&mut rhs): c is its outcome
ConcatenateStep(c) ==
    /\ side = "r"
    /\ nops < MaxOps
    /\ rd' = c.lhs
    /\ rhs' = c.rhs
    /\ last' = Call("concatenate_reader", "-", Unread(rd) + Unread(rhs), zero,
                    [lhs |-> rd, rhs |-> rhs], c.res, c.v)
    /\ consumed' = IF c.res = "Ok" THEN consumed + Unread(rd) ELSE consumed
    /\ clean' = (clean /\ c.res = "Ok")
    /\ nops' = nops + 1
    /\ UNCHANGED <<side, endian, wr, accepted, log, idx>>

ConcatenateReader == ConcatenateStep(concatenate_reader(endian, rd, rhs))

NextSub ==
    \/ ReadBit
    \/ Read
    \/ RhsRead
    \/ CreateSubReader
    \/ ConcatenateReader

SpecSub == InitSub /\ [][NextSub]_vars

(***************************************************************************)
(* Huffman specifications (side "h"): pairs are appended to the            *)
(* specification kept in log, then the specification is compiled.          *)
(***************************************************************************)
MaxPairs == 4

\* the codes of a specification: every 0/1 code of up to 2 elements, the
\* codes under 1,1, and codes with an element that is not a bit
HuffCodes ==
    { << >>, <<0>>, <<1>>, <<0, 0>>, <<0, 1>>, <<1, 0>>, <<1, 1>>,
      <<1, 1, 0>>, <<1, 1, 1>>, <<2>>, <<1, 2>> }

InitHuff ==
    /\ side = "h"
    /\ endian = "BE"
    /\ wr = BitWriter_new(SinkCap)
    /\ rd = BitReader_new(<< >>)
    /\ rhs = BitReader_new(<< >>)
    /\ accepted = << >>
    /\ consumed = 0
    /\ clean = TRUE
    /\ nops = 0
    /\ last = NoCall
    /\ log = << >>
    /\ idx = 0

\* one more (symbol, code) pair; the symbol is the position of the pair
AddPair ==
    /\ side = "h"
    /\ last.op = "none"
    /\ Len(log) < MaxPairs
    /\ \E code \in HuffCodes :
           log' = Append(log, [symbol |-> Len(log) + 1, code |-> code])
    /\ UNCHANGED <<side, endian, wr, rd, rhs, accepted, consumed, clean, nops,
                   last, idx>>

\* ReadHuffmanTree::new(log): r is its outcome
CompileStep(r) ==
    /\ side = "h"
    /\ last.op = "none"
    /\ last' = Call("ReadHuffmanTree_new", "-", Len(log), zero, log, r.res,
                    r.t)
    /\ clean' = (r.res = "Ok")
    /\ UNCHANGED <<side, endian, wr, rd, rhs, accepted, consumed, nops, log,
                   idx>>

CompileRead == CompileStep(ReadHuffmanTree_new(log))

NextHuff == AddPair \/ CompileRead

SpecHuff == InitHuff /\ [][NextHuff]_vars

(***************************************************************************)
(* Huffman specifications with chosen symbols: a symbol may come more than *)
(* once; the specification is compiled for reading or for writing.         *)
(***************************************************************************)
MaxSymPairs == 3

Symbols == {1, 2}

\* codes whose two bit orders differ, and codes with an element that is
\* not a bit, one of them behind the code 0
SymCodes ==
    { << >>, <<0>>, <<1>>, <<0, 1>>, <<1, 0>>, <<1, 1, 0>>, <<2>>, <<0, 2>> }

AddSymPair ==
    /\ side = "h"
    /\ last.op = "none"
    /\ Len(log) < MaxSymPairs
    /\ \E symbol \in Symbols, code \in SymCodes :
           log' = Append(log, [symbol |-> symbol, code |-> code])
    /\ UNCHANGED <<side, endian, wr, rd, rhs, accepted, consumed, clean, nops,
                   last, idx>>

\* WriteHuffmanTree::new(log): r is its outcome
CompileWriteStep(r) ==
    /\ side = "h"
    /\ last.op = "none"
    /\ last' = Call("WriteHuffmanTree_new", "-", Len(log), zero, log, r.res,
                    r)
    /\ clean' = (r.res = "Ok")
    /\ UNCHANGED <<side, endian, wr, rd, rhs, accepted, consumed, nops, log,
                   idx>>

CompileWrite == CompileWriteStep(WriteHuffmanTree_new(log))

NextHuffW == AddSymPair \/ CompileRead \/ CompileWrite

SpecHuffW == InitHuff /\ [][NextHuffW]_vars

\* a code as long as the u64 of a table entry is wide
LongCode == [j \in 1 .. 64 |-> IF j \in {1, 3, 64} THEN 1 ELSE 0]

\* one more pair with the long code, once in a specification
AddLongPair ==
    /\ side = "h"
    /\ last.op = "none"
    /\ Len(log) < MaxSymPairs
    /\ \A i \in DOMAIN log : log[i].code # LongCode
    /\ \E symbol \in Symbols :
           log' = Append(log, [symbol |-> symbol, code |-> LongCode])
    /\ UNCHANGED <<side, endian, wr, rd, rhs, accepted, consumed, clean, nops,
                   last, idx>>

\* encode tables only, codes of up to 64 elements
NextTable == AddSymPair \/ AddLongPair \/ CompileWrite

SpecTable == InitHuff /\ [][NextTable]_vars

(***************************************************************************)
(* Huffman codes on a stream: log holds a specification compiled both for  *)
(* writing and for reading.  Symbols are written, the writer is padded,    *)
(* and a reader over the bytes of the sink reads them back (side "hrt",    *)
(* accepted holds the symbols written); or a reader over given bytes       *)
(* reads short fields and symbols (side "r").                              *)
(***************************************************************************)
MaxSyms == 3

\* the symbols of a specification
SymbolsOf(values) == { values[i].symbol : i \in DOMAIN values }

\* the codes 0, 10, 110, 111 of the symbols 1..4
ExampleSpec ==
    << [symbol |-> 1, code |-> <<0>>], [symbol |-> 2, code |-> <<1, 0>>],
       [symbol |-> 3, code |-> <<1, 1, 0>>],
       [symbol |-> 4, code |-> <<1, 1, 1>>] >>

\* codes of 1 to 9 elements: k-1 zeros then a one for symbol k, nine zeros
\* for symbol 10
CombSpec ==
    [k \in 1 .. 10 |->
        [symbol |-> k,
         code |-> [j \in 1 .. Min({k, 9}) |->
                      IF j = k THEN 1 ELSE 0]]]

\* complete prefix-free specifications: the example, a code given out of
\* order, the code of one symbol and no bit, codes longer than a byte
HuffSpecs ==
    { ExampleSpec,
      << [symbol |-> 1, code |-> <<1>>], [symbol |-> 2, code |-> <<0, 1>>],
         [symbol |-> 3, code |-> <<0, 0>>] >>,
      << [symbol |-> 1, code |-> << >>] >>,
      CombSpec }

\* the compiled forms of a specification
WriteTree(values) == WriteHuffmanTree_new(values)

ReadTable(E, values) == compile_read_tree(E, ReadHuffmanTree_new(values).t)

InitHuffRT ==
    /\ side = "hrt"
    /\ endian \in Endians
    /\ wr = BitWriter_new(SinkCap)
    /\ rd = BitReader_new(<< >>)
    /\ rhs = BitReader_new(<< >>)
    /\ accepted = << >>
    /\ consumed = 0
    /\ clean = TRUE
    /\ nops = 0
    /\ last = NoCall
    /\ log \in HuffSpecs
    /\ idx = 0

\* write_huffman(tree, symbol): r is its outcome
HuffWriteStep(symbol, r) ==
    /\ wr' = r.w
    /\ last' = Call("write_huffman", "-", 0, zero, wr, r.res, symbol)
    /\ accepted' = Append(accepted, symbol)
    /\ clean' = (clean /\ r.res = "Ok")
    /\ UNCHANGED <<side, endian, rd, rhs, consumed, nops, log, idx>>

\* the symbols written: the first two and the last two of a specification
Written(values) ==
    { values[i].symbol :
        i \in DOMAIN values \cap {1, 2, Len(values) - 1, Len(values)} }

HuffWriteWith(tree) ==
    /\ side = "hrt"
    /\ idx = 0
    /\ Len(accepted) < MaxSyms
    /\ \E symbol \in Written(log) :
           HuffWriteStep(symbol, write_huffman(endian, wr, tree, symbol))

HuffWrite == HuffWriteWith(WriteTree(log))

\* byte_align has left r: a reader is opened on the bytes written
HuffAlignStep(r) ==
    /\ side = "hrt"
    /\ idx = 0
    /\ Len(accepted) > 0
    /\ wr' = r.w
    /\ rd' = BitReader_new(r.w.sink)
    /\ last' = Call("byte_align", "-", 0, zero, wr, r.res, zero)
    /\ clean' = (clean /\ r.res = "Ok")
    /\ idx' = 1
    /\ UNCHANGED <<side, endian, rhs, accepted, consumed, nops, log>>

HuffAlign == HuffAlignStep(BitWriter_byte_align(endian, wr))

\* read_huffman(tree) for the symbol idx: r is its outcome
HuffReadStep(r) ==
    /\ rd' = r.r
    /\ last' = Call("read_huffman", "-", 0, zero, rd, r.res, r.v)
    /\ clean' = (clean /\ r.res = "Ok")
    /\ idx' = idx + 1
    /\ UNCHANGED <<side, endian, wr, rhs, accepted, consumed, nops, log>>

HuffRead ==
    /\ side = "hrt"
    /\ idx \in 1 .. Len(accepted)
    /\ HuffReadStep(read_huffman(rd, ReadTable(endian, log)))

NextHuffRT == HuffWrite \/ HuffAlign \/ HuffRead

SpecHuffRT == InitHuffRT /\ [][NextHuffRT]_vars

\* sources of SrcLen bytes and their beginnings of 0, 1 and 2 bytes
HuffSources == { SubSeq(s, 1, n) : s \in Sources, n \in {0, 1, 2, SrcLen} }

InitHuffR ==
    /\ side = "r"
    /\ endian \in Endians
    /\ wr = BitWriter_new(SinkCap)
    /\ \E src \in HuffSources : rd = BitReader_new(src)
    /\ rhs = BitReader_new(<< >>)
    /\ accepted = << >>
    /\ consumed = 0
    /\ clean = TRUE
    /\ nops = 0
    /\ last = NoCall
    /\ log \in HuffSpecs
    /\ idx = 0

\* a field of 1..7 bits, which leaves any residual
ReadShort ==
    \E bits \in 1 .. 7 :
        ReaderStep("read", "u8", bits, read(endian, U8, rd, bits), bits)

\* the bits a call has taken from the reader it started from
Taken(pre, r) == Unread(pre) - Unread(r)

ReadHuffmanStep(r) == ReaderStep("read_huffman", "-", 0, r, Taken(rd, r.r))

ReadHuffman == ReadHuffmanStep(read_huffman(rd, ReadTable(endian, log)))

NextHuffR == ReadShort \/ ReadHuffman

SpecHuffR == InitHuffR /\ [][NextHuffR]_vars

(***************************************************************************)
(* Failing streams: sources of at most two bytes, exhausted or failing     *)
(* after them, and sinks that take at most two bytes.                      *)
(***************************************************************************)
\* nothing, or one or two bytes, then the end of the source or its failure
IOSources ==
    { head \o tail :
        head \in { << >>, << {0, 1, 2, 4, 5, 7} >>, << zero >>,
                   << LowBits(8) >>,
                   << {0, 1, 2, 4, 5, 7}, {0, 1, 2, 4, 5, 7} >> },
        tail \in { << >>, << Broken >> } }

IOCaps == {0, 1, 2}

InitIO ==
    /\ side \in {"r", "w"}
    /\ endian \in Endians
    /\ \E cap \in IOCaps :
           wr = BitWriter_new(IF side = "w" THEN cap ELSE SinkCap)
    /\ \E src \in IOSources :
           rd = BitReader_new(IF side = "r" THEN src ELSE << >>)
    /\ \E src \in { << {0, 1, 2, 4, 5, 7} >>, << Broken >> } :
           rhs = BitReader_new(IF side = "r" THEN src ELSE << >>)
    /\ accepted = << >>
    /\ consumed = 0
    /\ clean = TRUE
    /\ nops = 0
    /\ last = NoCall
    /\ log = CombSpec
    /\ idx = 0

NextIO ==
    \/ ReadBit
    \/ Read
    \/ ReadSigned
    \/ Skip
    \/ ReadBytes
    \/ ReadUnary0
    \/ ReadUnary1
    \/ ReadHuffman
    \/ CreateSubReader
    \/ ConcatenateReader
    \/ WriteBit
    \/ WriteShort
    \/ WriteBytes
    \/ WriteUnary0
    \/ WriteUnary1
    \/ WriterByteAlign

SpecIO == InitIO /\ [][NextIO]_vars

(***************************************************************************)
(* The round trip: fields are written and logged, the writer is padded to  *)
(* a byte boundary, and a reader of the same bit order over the bytes of   *)
(* the sink reads the fields back in order.                                *)
(***************************************************************************)
RTWidths == {1, 2, 3, 4, 5, 6, 7, 8, 9, 17, 32, 63, 64}

\* a value of exactly n bits, and the largest one for two of the widths
RTValues(n) ==
    { (Pattern(64) \cap LowBits(n)) \cup {n - 1} }
    \cup (IF n \in {9, 64} THEN { LowBits(n) } ELSE {})

RTUnary == {0, 31, 32, 63, 64, 65, 128}

\* the narrowest unsigned type holding n bits
TypeFor(n) ==
    IF n <= 8 THEN Ty("u8")
    ELSE IF n <= 16 THEN Ty("u16")
    ELSE IF n <= 32 THEN Ty("u32")
    ELSE Ty("u64")

InitRT == side = "rt" /\ InitCommon

\* one field is written and logged
RTWriteStep(op, T, bits, value, r) ==
    /\ side = "rt"
    /\ idx = 0
    /\ nops < MaxOps
    /\ wr' = r.w
    /\ last' = Call(op, T, bits, value, BitQueue_new, r.res, zero)
    /\ log' = Append(log, Call(op, T, bits, value, BitQueue_new, r.res, zero))
    /\ clean' = (clean /\ r.res = "Ok")
    /\ nops' = nops + 1
    /\ UNCHANGED <<side, endian, rd, rhs, accepted, consumed, idx>>

RTWrite ==
    \E n \in RTWidths :
        \E v \in RTValues(n) :
            RTWriteStep("write", TypeFor(n).name, n, v,
                        write(endian, TypeFor(n), wr, n, v))

RTWriteUnary0 ==
    \E n \in RTUnary :
        RTWriteStep("write_unary0", "-", n, zero, write_unary0(endian, wr, n))

RTWriteUnary1 ==
    \E n \in RTUnary :
        RTWriteStep("write_unary1", "-", n, zero, write_unary1(endian, wr, n))

\* byte_align has left r: a reader is opened on the bytes written
RTAlignStep(r) ==
    /\ side = "rt"
    /\ idx = 0
    /\ nops > 0
    /\ wr' = r.w
    /\ rd' = BitReader_new(r.w.sink)
    /\ last' = Call("byte_align", "-", 0, zero, BitQueue_new, r.res, zero)
    /\ clean' = (clean /\ r.res = "Ok")
    /\ idx' = 1
    /\ UNCHANGED <<side, endian, rhs, accepted, consumed, nops, log>>

RTAlign == RTAlignStep(BitWriter_byte_align(endian, wr))

\* field idx of the log is read back: r is the outcome, n the bits it took
RTReadStep(op, r, n) ==
    /\ rd' = r.r
    /\ last' = Call(op, log[idx].T, log[idx].bits, log[idx].value,
                    rd.bitqueue, r.res, r.v)
    /\ consumed' = consumed + n
    /\ clean' = (clean /\ r.res = "Ok")
    /\ idx' = idx + 1
    /\ UNCHANGED <<side, endian, wr, rhs, accepted, nops, log>>

RTRead ==
    /\ side = "rt"
    /\ idx \in 1 .. Len(log)
    /\ log[idx].op = "write"
    /\ RTReadStep("read",
                  read(endian, Ty(log[idx].T), rd, log[idx].bits),
                  log[idx].bits)

RTReadUnary0 ==
    /\ side = "rt"
    /\ idx \in 1 .. Len(log)
    /\ log[idx].op = "write_unary0"
    /\ RTReadStep("read_unary0", read_unary0(endian, rd), log[idx].bits + 1)

RTReadUnary1 ==
    /\ side = "rt"
    /\ idx \in 1 .. Len(log)
    /\ log[idx].op = "write_unary1"
    /\ RTReadStep("read_unary1", read_unary1(endian, rd), log[idx].bits + 1)

NextRT ==
    \/ RTWrite
    \/ RTWriteUnary0
    \/ RTWriteUnary1
    \/ RTAlign
    \/ RTRead
    \/ RTReadUnary0
    \/ RTReadUnary1

SpecRT == InitRT /\ [][NextRT]_vars

(***************************************************************************)
(* Widths at and above the size of the type, on a writer and on a reader.  *)
(***************************************************************************)
Widths(T) == { bits_size(T), bits_size(T) + 1, 2 * bits_size(T) }

InitWidth ==
    /\ side \in {"w", "r"}
    /\ endian \in Endians
    /\ wr = BitWriter_new(SinkCap)
    /\ rd = BitReader_new([i \in 1 .. SrcLen |-> Pattern(8)])
    /\ rhs = BitReader_new(<< >>)
    /\ accepted = << >>
    /\ consumed = 0
    /\ clean = TRUE
    /\ nops = 0
    /\ last = NoCall
    /\ log = << >>
    /\ idx = 0

WidthWrite ==
    \E T \in Types :
        \E bits \in Widths(T) :
            WriterStep("write", T.name, bits, Pattern(T.w),
                       write(endian, T, wr, bits, Pattern(T.w)), << >>)

WidthWriteSigned ==
    \E S \in SignedTypes :
        \E bits \in Widths(S) :
            WriterStep("write_signed", S.name, bits, Pattern(S.w),
                       write_signed(endian, S, wr, bits, Pattern(S.w)),
                       << >>)

WidthRead ==
    \E T \in Types :
        \E bits \in Widths(T) :
            ReaderStep("read", T.name, bits, read(endian, T, rd, bits), bits)

WidthReadSigned ==
    \E S \in SignedTypes :
        \E bits \in Widths(S) :
            ReaderStep("read_signed", S.name, bits,
                       read_signed(endian, S, rd, bits), bits)

NextWidth ==
    \/ WriteBit
    \/ WidthWrite
    \/ WidthWriteSigned
    \/ ReadBit
    \/ WidthRead
    \/ WidthReadSigned

SpecWidth == InitWidth /\ [][NextWidth]_vars

(***************************************************************************)
(* Signed fields of width zero, in a build that checks overflow and in a   *)
(* build that does not, after bits and short fields that leave every       *)
(* residual count in the queue.                                            *)
(***************************************************************************)
ZeroValues(S) == {zero, LowBits(S.w), Pattern(S.w)}

ZeroWriteSigned ==
    \E S \in SignedTypes :
        \E value \in ZeroValues(S) :
            \E checked \in BOOLEAN :
                WriterStep("write_signed", S.name, 0, value,
                           write_signed_build(checked, endian, S, wr, 0,
                                              value),
                           << >>)

ZeroReadSigned ==
    \E S \in SignedTypes :
        \E checked \in BOOLEAN :
            ReaderStep("read_signed", S.name, 0,
                       read_signed_build(checked, endian, S, rd, 0), 0)

NextZero ==
    \/ WriteBit
    \/ WriteShort
    \/ ZeroWriteSigned
    \/ ReadBit
    \/ ReadShort
    \/ ZeroReadSigned

SpecZero == InitWidth /\ [][NextZero]_vars

(***************************************************************************)
(* Properties.                                                             *)
(***************************************************************************)
\* the value v is below 2^n
Fits(v, n) == v \subseteq LowBits(n)

\* the outcome of one write_bit call per bit of bs, in order (the calls are
\* split in two halves to keep the evaluation shallow)
RECURSIVE write_bits(_, _, _)
write_bits(E, w, bs) ==
    IF bs = << >>
    THEN WOk(w)
    ELSE IF Len(bs) = 1
    THEN write_bit(E, w, bs[1] = 1)
    ELSE WThen(write_bits(E, w, SubSeq(bs, 1, Len(bs) \div 2)),
               LAMBDA x :
                 write_bits(E, x, SubSeq(bs, (Len(bs) \div 2) + 1, Len(bs))))

LastIsWrite == side = "w" /\ last.op = "write"

\* C3: write(n, v) with v fitting in n <= width(U) bits succeeds and leaves
\* the sink and the residual exactly as n write_bit calls would, the bits of
\* v going most-significant-first (BigEndian) or least-significant-first
\* (LittleEndian), on the fast path and on the drain / whole-bytes /
\* remainder path.
C3_WriteIsWriteBits ==
    (LastIsWrite /\ last.bits <= bits_size(Ty(last.T))
        /\ Fits(last.value, last.bits))
    => /\ last.res = "Ok"
       /\ wr = write_bits(endian, last.pre,
                          FieldBits(endian, last.bits, last.value)).w

\* a write that drained into a partial byte, wrote whole bytes and kept a
\* remainder
C3_Witness ==
    /\ LastIsWrite /\ last.res = "Ok"
    /\ len(last.pre.bitqueue) > 0
    /\ last.bits >= remaining_len(U8, last.pre.bitqueue) + 16
    /\ len(wr.bitqueue) > 0
    /\ last.value # zero

\* C5: for bits <= width(U), write::<U>(bits, value) is rejected with
\* InvalidInput exactly when bits < width(U) and value >= 2^bits; every
\* other value is accepted (the sink has room for the bytes).
C5_ValueRejection ==
    (LastIsWrite /\ last.bits <= bits_size(Ty(last.T)))
    => /\ (last.res = "InvalidInput")
              <=> (last.bits < bits_size(Ty(last.T))
                      /\ \E i \in last.value : i >= last.bits)
       /\ last.res \in {"Ok", "InvalidInput"}

\* a value of exactly 2^bits was rejected after an earlier write
C5_Witness ==
    /\ LastIsWrite /\ last.res = "InvalidInput"
    /\ last.bits < bits_size(Ty(last.T))
    /\ last.value = {last.bits}
    /\ len(last.pre.bitqueue) > 0

\* C7: after successful writer calls that accepted W bits, the sink holds the
\* first 8*floor(W/8) accepted bits as floor(W/8) bytes and the residual
\* holds exactly the last W mod 8 accepted bits, fewer than 8.
C7_WriterAccounting ==
    (side = "w" /\ clean)
    => /\ wr.sink = PackedBytes(endian, accepted)
       /\ wr.bitqueue = PackedRest(endian, accepted)
       /\ len(wr.bitqueue) < 8

LastIsWriteSigned ==
    /\ side = "w" /\ last.op = "write_signed"
    /\ 1 <= last.bits /\ last.bits <= bits_size(Ty(last.T))

\* the value read_signed::<S>(bits) returns on the bits bs (zero-padded to
\* whole bytes)
ReadSignedBack(E, S, bits, bs) ==
    read_signed(E, S,
        BitReader_new(PackedBytes(E, bs \o Repeat(0, (8 - (Len(bs) % 8)) % 8))),
        bits)

\* C8: write_signed(bits, value) with 1 <= bits <= width(S) and value in
\* [-2^(bits-1), 2^(bits-1)-1] succeeds, emits the sign bit and the bits-1
\* magnitude bits in the order of the bit order, and read_signed::<S>(bits)
\* on those bits returns value.
C8_SignedRoundTrip ==
    (LastIsWriteSigned
        /\ InRange(Ty(last.T), last.value, last.bits))
    => With(SignedBits(endian, Ty(last.T), last.bits, last.value),
            LAMBDA bs :
              /\ last.res = "Ok"
              /\ wr = write_bits(endian, last.pre, bs).w
              /\ With(ReadSignedBack(endian, Ty(last.T), last.bits, bs),
                      LAMBDA back :
                        back.res = "Ok" /\ back.v = last.value))

\* C9: write_signed(bits, value) with value outside
\* [-2^(bits-1), 2^(bits-1)-1] returns an InvalidInput error.
C9_SignedValueRejection ==
    (LastIsWriteSigned
        /\ ~InRange(Ty(last.T), last.value, last.bits))
    => last.res = "InvalidInput"

\* the outcome of n read_bit calls, one after the other: [r, res, bs], bs
\* the bits in stream order (the calls are split in two halves to keep the
\* evaluation shallow)
RECURSIVE read_bits(_, _, _)
read_bits(E, r, n) ==
    IF n = 0
    THEN [r |-> r, res |-> "Ok", bs |-> << >>]
    ELSE IF n = 1
    THEN With(read_bit(E, r),
              LAMBDA b : [r |-> b.r, res |-> b.res,
                          bs |-> IF b.res = "Ok"
                                 THEN <<IF b.v THEN 1 ELSE 0>>
                                 ELSE << >>])
    ELSE With(read_bits(E, r, n \div 2),
           LAMBDA h :
             IF h.res = "Ok"
             THEN With(read_bits(E, h.r, n - (n \div 2)),
                    LAMBDA t : [r |-> t.r, res |-> t.res,
                                bs |-> h.bs \o t.bs])
             ELSE h)

LastIsRead == side = "r" /\ last.op = "read"

\* C2: read::<U>(n), n <= width(U), consumes the n bits that n read_bit
\* calls would return, leaves the reader as they would, and returns those
\* bits with the first one most significant (BigEndian) or least
\* significant (LittleEndian), also across source bytes.
C2_ReadIsReadBits ==
    (LastIsRead /\ last.bits <= bits_size(Ty(last.T)))
    => With(read_bits(endian, last.pre, last.bits),
            LAMBDA n_calls :
              n_calls.res = "Ok"
              => /\ last.res = "Ok"
                 /\ rd = n_calls.r
                 /\ last.out = FieldValue(endian, n_calls.bs))

\* a read that drained a residual, took whole bytes and split a last byte
C2_Witness ==
    /\ LastIsRead /\ last.res = "Ok"
    /\ len(last.pre.bitqueue) > 0
    /\ last.bits >= len(last.pre.bitqueue) + 16
    /\ len(rd.bitqueue) > 0
    /\ last.out # zero
    /\ last.out # LowBits(last.bits)

\* C6: after successful reader calls that delivered, skipped or discarded B
\* bits, the reader has fetched exactly ceil(B/8) bytes and caches exactly
\* 8*ceil(B/8) - B bits, at most 7.
C6_ReaderAccounting ==
    (side = "r" /\ clean)
    => /\ rd.pos = (consumed + 7) \div 8
       /\ len(rd.bitqueue) = 8 * rd.pos - consumed
       /\ len(rd.bitqueue) <= 7

\* a unary read that passed whole bytes and stopped inside a byte, after an
\* earlier call left the reader unaligned
C6_Witness ==
    /\ side = "r" /\ clean
    /\ last.op \in {"read_unary0", "read_unary1"}
    /\ len(last.pre.bitqueue) > 0
    /\ last.out >= len(last.pre.bitqueue) + 8
    /\ len(rd.bitqueue) > 0

\* C1: unsigned fields (n, v), 1 <= n <= 64, v < 2^n, written in order with
\* write, followed by byte_align, are returned by read(n) in the same order
\* from a reader of the same bit order over the bytes produced, whatever
\* bit offset each field starts at.
C1_UnsignedRoundTrip ==
    /\ (side = "rt" /\ last.op = "write") => last.res = "Ok"
    /\ (side = "rt" /\ last.op = "read")
       => (last.res = "Ok" /\ last.out = last.value)

\* a field of more than 8 bits read back from inside a byte
C1_Witness ==
    /\ side = "rt" /\ last.op = "read" /\ last.res = "Ok"
    /\ idx = 3
    /\ last.pre.bits > 0
    /\ last.bits > 16
    /\ last.out = last.value

\* C4: read::<T>(bits), read_signed::<T>(bits), write::<T>(bits, v) and
\* write_signed::<T>(bits, v) with bits > width(T) fail with InvalidInput,
\* for every type of width 8, 16, 32 or 64 and in any reader/writer state.
C4_WidthRejection ==
    (/\ side \in {"w", "r"}
     /\ last.op \in {"read", "read_signed", "write", "write_signed"}
     /\ last.bits > bits_size(Ty(last.T)))
    => last.res = "InvalidInput"

\* a signed read of too many bits refused by a reader holding cached bits
C4_Witness ==
    /\ side = "r" /\ last.op = "read_signed"
    /\ last.bits = bits_size(Ty(last.T)) + 1
    /\ len(last.pre.bitqueue) > 0
    /\ last.res = "InvalidInput"

\* C10: write_unary0(n) is read back as n by read_unary0, and
\* write_unary1(n) as n by read_unary1, for n = 0, 31, 32, 63, 64, 65, 128
\* and at any bit offset left by earlier writes; the reader then stands on
\* the bit right after the terminating bit.
C10_UnaryRoundTrip ==
    /\ (side = "rt" /\ last.op \in {"write_unary0", "write_unary1"})
       => last.res = "Ok"
    /\ (side = "rt" /\ last.op \in {"read_unary0", "read_unary1"})
       => /\ last.res = "Ok"
          /\ last.out = last.bits
          /\ 8 * rd.pos - len(rd.bitqueue) = consumed

\* a run longer than 64 read back from inside a byte
C10_Witness ==
    /\ side = "rt" /\ last.op \in {"read_unary0", "read_unary1"}
    /\ last.res = "Ok"
    /\ idx = 3
    /\ last.pre.bits > 0
    /\ last.out > 64
    /\ len(rd.bitqueue) > 0

\* the number of bits a writer has taken: 8 per sink byte and the residual
BitsHeld(w) == 8 * Len(w.sink) + len(w.bitqueue)

\* C11: write_unary0(n) appends exactly n+1 bits, n ones then one zero, and
\* write_unary1(n) exactly n zeros then one one, as n+1 write_bit calls
\* would, for n <= 64 and for n > 64 (64-bit chunks, one terminating bit).
C11_UnaryBits ==
    (side = "w" /\ last.op \in {"write_unary0", "write_unary1"})
    => With(IF last.op = "write_unary0"
            THEN Repeat(1, last.bits) \o <<0>>
            ELSE Repeat(0, last.bits) \o <<1>>,
            LAMBDA bs :
              /\ last.res = "Ok"
              /\ wr = write_bits(endian, last.pre, bs).w
              /\ BitsHeld(wr) = BitsHeld(last.pre) + last.bits + 1)

\* a run of more than two chunks written from inside a byte
C11_Witness ==
    /\ side = "w" /\ last.op = "write_unary0" /\ last.res = "Ok"
    /\ last.bits > 128
    /\ len(last.pre.bitqueue) > 0
    /\ len(wr.bitqueue) > 0

\* C12: in every state of a reader and of a writer byte_aligned() is true
\* exactly when the residual holds no bit, and the residual holds fewer than
\* 8 bits; as long as every call succeeded this is exactly when the number
\* of bits consumed (reader, bits discarded by byte_align included) or
\* accepted (writer) is a multiple of 8.
C12_AlignmentQuery ==
    /\ side = "w"
       => /\ byte_aligned(wr) <=> (len(wr.bitqueue) = 0)
          /\ len(wr.bitqueue) < 8
          /\ clean => (byte_aligned(wr) <=> (Len(accepted) % 8 = 0))
    /\ side = "r"
       => /\ byte_aligned(rd) <=> (len(rd.bitqueue) = 0)
          /\ len(rd.bitqueue) < 8
          /\ clean => (byte_aligned(rd) <=> (consumed % 8 = 0))

\* a reader aligned again by byte_align after a read that ended inside a byte
C12_Witness ==
    /\ side = "r" /\ clean
    /\ last.op = "byte_align"
    /\ len(last.pre.bitqueue) > 0
    /\ consumed >= 16
    /\ byte_aligned(rd)

\* C13: byte_align on a writer holding r residual bits, 0 <= r <= 7, succeeds
\* and appends exactly (8 - r) mod 8 zero bits: for r = 0 the writer is left
\* untouched, for r > 0 the one byte made of the r residual bits followed by
\* zeros goes to the sink; afterwards byte_aligned() is true and the sink
\* holds all the accepted bits followed by the padding.
C13_PadsWithZeros ==
    (side = "w" /\ last.op = "byte_align")
    => With(Repeat(0, (8 - len(last.pre.bitqueue)) % 8),
            LAMBDA pad :
              /\ last.res = "Ok"
              /\ wr = write_bits(endian, last.pre, pad).w
              /\ byte_aligned(wr)
              /\ len(last.pre.bitqueue) = 0 => wr = last.pre
              /\ len(last.pre.bitqueue) > 0
                 => /\ Len(wr.sink) = Len(last.pre.sink) + 1
                    /\ BitsHeld(wr) = BitsHeld(last.pre) + Len(pad)
              /\ clean
                 => /\ wr.sink = PackedBytes(endian, accepted)
                    /\ SubSeq(accepted, Len(accepted) - Len(pad) + 1,
                              Len(accepted)) = pad)

\* nine bits were written, the last of them a one: seven zeros follow it
C13_Witness ==
    /\ side = "w" /\ clean
    /\ last.op = "byte_align"
    /\ Len(last.pre.sink) = 1
    /\ len(last.pre.bitqueue) = 1
    /\ last.pre.bitqueue.value # zero
    /\ Len(wr.sink) = 2
    /\ wr.sink[2] = (IF endian = "BE" THEN {7} ELSE {0})

\* C14: skip(n), for any n (also above 64), succeeds exactly when n read_bit
\* calls succeed and then leaves the reader as they do: the same residual
\* count and value and the same number of bytes fetched from the source.
C14_SkipIsReadBits ==
    (side = "r" /\ last.op = "skip")
    => With(read_bits(endian, last.pre, last.bits),
            LAMBDA n_calls :
              /\ (last.res = "Ok") <=> (n_calls.res = "Ok")
              /\ last.res = "Ok" => rd = n_calls.r)

\* more than 64 bits skipped from inside a byte to inside a later byte
C14_Witness ==
    /\ side = "r" /\ last.op = "skip" /\ last.res = "Ok"
    /\ last.bits > 64
    /\ len(last.pre.bitqueue) > 0
    /\ len(rd.bitqueue) > 0
    /\ rd.pos = last.pre.pos + 9

\* C15: read_bytes(buf) succeeds exactly when one read::<u8>(8) per element
\* does, and then fills buf with the same bytes and leaves the same reader;
\* write_bytes(buf) leaves the same sink and residual as one write(8, b) per
\* byte.  Both also agree with reading / writing the 8 * len(buf) bits one
\* by one, on the byte-aligned bulk path and on the unaligned per-byte path.
C15_BulkBytes ==
    /\ (side = "w" /\ last.op = "write_bytes")
       => With(SubSeq(SampleBytes, 1, last.bits \div 8),
            LAMBDA buf :
          With(write_bytes_each(endian, last.pre, buf),
            LAMBDA each :
              /\ last.res = each.res
              /\ wr = each.w
              /\ last.res = "Ok"
              /\ wr = write_bits(endian, last.pre, BytesBits(endian, buf)).w))
    /\ (side = "r" /\ last.op = "read_bytes")
       => With(read_bytes_each(endian, last.pre, last.bits \div 8),
            LAMBDA each :
          With(read_bits(endian, last.pre, last.bits),
            LAMBDA n_calls :
              /\ (last.res = "Ok") <=> (each.res = "Ok")
              /\ (last.res = "Ok") <=> (n_calls.res = "Ok")
              /\ last.res = "Ok"
                 => /\ rd = each.r
                    /\ last.out = each.buf
                    /\ rd = n_calls.r
                    /\ last.out = PackedBytes(endian, n_calls.bs)))

\* two bytes read from inside a byte of a source of mixed bytes
C15_Witness ==
    /\ side = "r" /\ last.op = "read_bytes" /\ last.res = "Ok"
    /\ last.bits = 8 * MaxBytes
    /\ len(last.pre.bitqueue) > 0
    /\ Len(last.out) = MaxBytes
    /\ last.out[1] # last.out[2]
    /\ zero \notin {last.out[1], last.out[2]}

LastIsSubReader == side = "r" /\ last.op = "create_sub_reader"

\* C16: on a LittleEndian reader holding at least `bits` more bits,
\* create_sub_reader(bits) succeeds; read_bit on the reader returned
\* delivers the bits that `bits` read_bit calls on the original would have
\* delivered, in that order, and then fails; the original is left as after
\* those `bits` read_bit calls.
C16_SubReaderLE ==
    (LastIsSubReader /\ endian = "LE")
    => With(read_bits(endian, last.pre, last.bits),
            LAMBDA n_calls :
              n_calls.res = "Ok"
              => /\ last.res = "Ok"
                 /\ rd = n_calls.r
                 /\ With(read_bits("LE", last.out, last.bits),
                         LAMBDA sub :
                           /\ sub.res = "Ok"
                           /\ sub.bs = n_calls.bs
                           /\ read_bit("LE", sub.r).res # "Ok"
                           /\ read("LE", U8, sub.r, 1).res # "Ok"))

\* 21 bits taken from inside a byte of a LittleEndian source of mixed bytes
C16_Witness ==
    /\ LastIsSubReader /\ endian = "LE" /\ last.res = "Ok"
    /\ last.bits = 21
    /\ len(last.pre.bitqueue) > 0
    /\ len(rd.bitqueue) > 0
    /\ Len(last.out.src) = 3
    /\ last.out.src[2] # last.out.src[3]
    /\ zero \notin {last.out.src[2], last.out.src[3]}

\* C17: on a BigEndian reader holding at least `bits` more bits, read_bit on
\* the reader create_sub_reader(bits) returns delivers the bits that `bits`
\* read_bit calls on the original would have delivered, in that order.
C17_SubReaderBE ==
    (LastIsSubReader /\ endian = "BE")
    => With(read_bits(endian, last.pre, last.bits),
            LAMBDA n_calls :
              n_calls.res = "Ok"
              => /\ last.res = "Ok"
                 /\ With(read_bits("LE", last.out, last.bits),
                         LAMBDA sub :
                           sub.res = "Ok" /\ sub.bs = n_calls.bs))

\* the bits a LittleEndian reader would still deliver, by read_bit
UnreadBits(r) == read_bits("LE", r, Unread(r))

\* C18: concatenate_reader on two LittleEndian readers succeeds; the reader
\* returned delivers the unread bits of the left reader (cached residual,
\* then remaining source bytes) followed by those of the right reader, in
\* order, exactly lhs_unread + rhs_unread of them and no padding bit, and
\* then fails; both inputs are left with an empty residual and an
\* exhausted source.  Residual counts 0..7 on each side, sums that are
\* multiples of 8 included.
C18_ConcatenateLE ==
    (side = "r" /\ last.op = "concatenate_reader" /\ endian = "LE")
    => With(UnreadBits(last.pre.lhs),
         LAMBDA l :
       With(UnreadBits(last.pre.rhs),
         LAMBDA r :
           /\ last.res = "Ok"
           /\ l.res = "Ok" /\ r.res = "Ok"
           /\ Unread(last.out) = Len(l.bs) + Len(r.bs)
           /\ With(UnreadBits(last.out),
                   LAMBDA out :
                     /\ out.res = "Ok"
                     /\ out.bs = l.bs \o r.bs
                     /\ read_bit("LE", out.r).res # "Ok")
           /\ Unread(rd) = 0
           /\ Unread(rhs) = 0))

\* residuals of 3 and 5 bits, whose sum needs no padding, each in front of
\* more source bytes
C18_Witness ==
    /\ side = "r" /\ last.op = "concatenate_reader" /\ endian = "LE"
    /\ last.res = "Ok"
    /\ len(last.pre.lhs.bitqueue) = 3
    /\ len(last.pre.rhs.bitqueue) = 5
    /\ last.pre.lhs.bitqueue.value # zero
    /\ Unread(last.pre.lhs) > 8
    /\ Unread(last.pre.rhs) > 8
    /\ len(last.out.bitqueue) = 0

\* code a is the beginning of code b (or equal to it)
IsPrefix(a, b) == Len(a) <= Len(b) /\ SubSeq(b, 1, Len(a)) = a

AllBits(values) ==
    \A i \in DOMAIN values :
        \A k \in DOMAIN values[i].code : values[i].code[k] \in {0, 1}

PrefixFree(values) ==
    \A i, j \in DOMAIN values :
        i # j => ~IsPrefix(values[i].code, values[j].code)

\* the longest code of a specification
Depth(values) == Max({0} \cup { Len(values[i].code) : i \in DOMAIN values })

\* every bit pattern starts with some code
Complete(values) ==
    \A p \in [1 .. Depth(values) -> {0, 1}] :
        \E i \in DOMAIN values : IsPrefix(values[i].code, p)

\* a tree without empty node: leaves, and internal nodes with two such
\* subtrees
RECURSIVE Full(_)
Full(t) ==
    \/ t.kind = "Leaf"
    \/ t.kind = "Tree" /\ Full(t.zero) /\ Full(t.one)

\* the symbol a walk along the bits p ends on, 0 when it ends nowhere
RECURSIVE Walk(_, _)
Walk(t, p) ==
    IF t.kind = "Leaf" THEN t.v
    ELSE IF t.kind = "Tree" /\ p # << >>
    THEN Walk(IF Head(p) = 0 THEN t.zero ELSE t.one, Tail(p))
    ELSE 0

LastIsCompile == side = "h" /\ last.op = "ReadHuffmanTree_new"

\* C19: ReadHuffmanTree::new succeeds exactly when the specification is a
\* complete prefix-free code over {0, 1}: all elements 0 or 1, no code equal
\* to or a proper prefix of another, every bit pattern starting with a
\* code.  The empty specification is rejected; a tree that was built has
\* no empty node and leads every code to its symbol.
C19_CompleteCodesOnly ==
    LastIsCompile
    => /\ (last.res = "Ok")
              <=> (AllBits(last.pre) /\ PrefixFree(last.pre)
                      /\ Complete(last.pre))
       /\ last.pre = << >> => last.res # "Ok"
       /\ last.res = "Ok"
          => /\ Full(last.out)
             /\ \A i \in DOMAIN last.pre :
                    Walk(last.out, last.pre[i].code) = last.pre[i].symbol

\* the code 0, 10, 110, 111 compiled from a specification in another order
C19_Witness ==
    /\ LastIsCompile /\ last.res = "Ok"
    /\ Len(last.pre) = 4
    /\ last.pre[1].code = <<1, 1, 0>>
    /\ last.out.one.one.zero = new_leaf(1)
    /\ last.out.zero.kind = "Leaf"

\* C20: when every insertion of ReadHuffmanTree::new succeeds and some bit
\* pattern starts with no code (the empty specification included), new
\* returns Err(MissingLeaf); MissingLeaf is returned in no other case.
C20_MissingLeaf ==
    LastIsCompile
    => With(add_all(new_empty, last.pre).res = "Ok",
            LAMBDA inserted :
              /\ (inserted /\ ~Complete(last.pre))
                     => last.res = "MissingLeaf"
              /\ last.res = "MissingLeaf"
                     => (inserted /\ ~Complete(last.pre))
              /\ inserted <=> (AllBits(last.pre) /\ PrefixFree(last.pre))
              /\ last.pre = << >> => last.res = "MissingLeaf")

\* the codes 0 and 11: the pattern 10 has no symbol
C20_Witness ==
    /\ LastIsCompile /\ last.res = "MissingLeaf"
    /\ Len(last.pre) = 2
    /\ last.pre[1].code = <<0>>
    /\ last.pre[2].code = <<1, 1>>

\* code j of a specification conflicts with an earlier code: one of the two
\* is the beginning of the other
Conflicts(values, j) ==
    \E i \in 1 .. (j - 1) :
        \/ IsPrefix(values[i].code, values[j].code)
        \/ IsPrefix(values[j].code, values[i].code)

\* the error the list itself gives code j: OrphanedLeaf when it goes on
\* past an earlier, shorter code, DuplicateLeaf when it equals an earlier
\* code or is the beginning of an earlier, longer one
Classify(values, j) ==
    IF \E i \in 1 .. (j - 1) :
           /\ IsPrefix(values[i].code, values[j].code)
           /\ Len(values[i].code) < Len(values[j].code)
    THEN "OrphanedLeaf"
    ELSE "DuplicateLeaf"

\* C21: in ReadHuffmanTree::new, when the codes before the first
\* conflicting code j are inserted (all their elements are 0 or 1), the
\* result is the error of code j: DuplicateLeaf when code j equals an
\* earlier code or is a proper prefix of an earlier one, OrphanedLeaf when
\* it continues past an earlier code.  The insertions before j succeed, and
\* the result is the same whatever follows code j.
C21_FirstConflict ==
    LastIsCompile
    => \A j \in DOMAIN last.pre :
           ( /\ Conflicts(last.pre, j)
             /\ \A k \in 1 .. (j - 1) : ~Conflicts(last.pre, k)
             /\ AllBits(SubSeq(last.pre, 1, j - 1)) )
           => /\ last.res = Classify(last.pre, j)
              /\ add_all(new_empty, SubSeq(last.pre, 1, j - 1)).res = "Ok"
              /\ ReadHuffmanTree_new(SubSeq(last.pre, 1, j)).res = last.res

\* 1,0 then 1 (the beginning of the first code), then a code that is not
\* examined: DuplicateLeaf
C21_Witness ==
    /\ LastIsCompile /\ last.res = "DuplicateLeaf"
    /\ Len(last.pre) = 3
    /\ last.pre[1].code = <<1, 0>>
    /\ last.pre[2].code = <<1>>
    /\ last.pre[3].code = <<2>>

LastIsCompileWrite == side = "h" /\ last.op = "WriteHuffmanTree_new"

\* the element at position p of code j is the first of the specification
\* that an insertion examines and finds to be no bit: the codes before j
\* are inserted, and no leaf of theirs lies on the way to position p
ReachesInvalid(values, j, p) ==
    /\ AllBits(SubSeq(values, 1, j - 1))
    /\ PrefixFree(SubSeq(values, 1, j - 1))
    /\ values[j].code[p] \notin {0, 1}
    /\ \A k \in 1 .. (p - 1) : values[j].code[k] \in {0, 1}
    /\ \A i \in 1 .. (j - 1) :
           ~IsPrefix(values[i].code, SubSeq(values[j].code, 1, p - 1))

\* C22 as stated: a specification with an element other than 0 and 1 makes
\* ReadHuffmanTree::new and WriteHuffmanTree::new return Err(InvalidBit),
\* wherever the element occurs.
C22_AnyInvalidBit ==
    ((LastIsCompile \/ LastIsCompileWrite) /\ ~AllBits(last.pre))
        => last.res = "InvalidBit"

\* C22, amended: WriteHuffmanTree::new returns Err(InvalidBit) exactly when
\* some element is not 0 or 1.  ReadHuffmanTree::new rejects every such
\* specification, with InvalidBit exactly when an insertion reaches the
\* element: all earlier codes were inserted and none of them is a leaf on
\* the way to it; otherwise the earlier DuplicateLeaf or OrphanedLeaf is
\* returned.
C22_InvalidBitReached ==
    /\ LastIsCompileWrite
           => (last.res = "InvalidBit" <=> ~AllBits(last.pre))
    /\ LastIsCompile
       => /\ ~AllBits(last.pre)
                 => last.res \in {"InvalidBit", "DuplicateLeaf",
                                  "OrphanedLeaf"}
          /\ last.res = "InvalidBit"
                 <=> \E j \in DOMAIN last.pre :
                         \E p \in DOMAIN last.pre[j].code :
                             ReachesInvalid(last.pre, j, p)

\* 1 then 0,2: the second insertion reaches the element 2
C22_Witness ==
    /\ LastIsCompile /\ last.res = "InvalidBit"
    /\ Len(last.pre) = 2
    /\ last.pre[1].code = <<1>>
    /\ last.pre[2].code = <<0, 2>>

\* the first pair of a specification that carries the symbol
FirstOf(values, symbol) ==
    Min({ i \in DOMAIN values : values[i].symbol = symbol })

\* the table entry of a code in bit order E: its length, and its value
\* with the first element first in stream order
EntryOf(E, code) == <<Len(code), FieldValue(E, code)>>

\* C23: in a table built by WriteHuffmanTree::new, a symbol that occurs
\* more than once has, under get_be and get_le, the length and value of
\* the code of its first occurrence; from that occurrence on, no longer
\* specification changes the entry.
C23_FirstCodeWins ==
    (LastIsCompileWrite /\ last.res = "Ok")
    => \A s \in SymbolsOf(last.pre) :
           With(FirstOf(last.pre, s),
                LAMBDA i :
                  /\ get_be(last.out, s) = EntryOf("BE", last.pre[i].code)
                  /\ get_le(last.out, s) = EntryOf("LE", last.pre[i].code)
                  /\ \A n \in i .. Len(last.pre) :
                         With(WriteHuffmanTree_new(SubSeq(last.pre, 1, n)),
                              LAMBDA t :
                                /\ get_be(t, s) = get_be(last.out, s)
                                /\ get_le(t, s) = get_le(last.out, s)))

\* symbol 1 with the codes 1,0 then 0,1, symbol 2 in between
C23_Witness ==
    /\ LastIsCompileWrite /\ last.res = "Ok"
    /\ Len(last.pre) = 3
    /\ last.pre[1] = [symbol |-> 1, code |-> <<1, 0>>]
    /\ last.pre[2].symbol = 2
    /\ last.pre[3] = [symbol |-> 1, code |-> <<0, 1>>]
    /\ get_be(last.out, 1) = <<2, {1}>>
    /\ get_le(last.out, 1) = <<2, {0}>>

\* the bits of an L-bit value in the opposite order
Reversed(L, v) == { L - 1 - i : i \in v }

\* C24: WriteHuffmanTree::new accepts every specification whose elements
\* are all 0 or 1, complete or not.  In the table, has_symbol holds exactly
\* for the symbols of the specification, both bit orders have the same
\* keys, and a symbol whose first code is c of length L has under get_be
\* the pair (L, c with c[0] most significant) and under get_le the pair
\* (L, c with c[0] least significant): L-bit reversals of each other.
C24_TableContents ==
    LastIsCompileWrite
    => /\ AllBits(last.pre) => last.res = "Ok"
       /\ last.res = "Ok"
          => /\ \A s \in Symbols :
                    has_symbol(last.out, s) <=> s \in SymbolsOf(last.pre)
             /\ DOMAIN last.out.big_endian = DOMAIN last.out.little_endian
             /\ \A s \in SymbolsOf(last.pre) :
                    With(last.pre[FirstOf(last.pre, s)].code,
                         LAMBDA c :
                           /\ get_be(last.out, s) = EntryOf("BE", c)
                           /\ get_le(last.out, s) = EntryOf("LE", c)
                           /\ get_be(last.out, s)[1] = Len(c)
                           /\ get_le(last.out, s)[2]
                                  = Reversed(Len(c), get_be(last.out, s)[2])
                           /\ Fits(get_be(last.out, s)[2], Len(c)))

\* an incomplete specification: 1,1,0 for symbol 2 alone
C24_Witness ==
    /\ LastIsCompileWrite /\ last.res = "Ok"
    /\ Len(last.pre) = 1
    /\ last.pre[1] = [symbol |-> 2, code |-> <<1, 1, 0>>]
    /\ ~has_symbol(last.out, 1)
    /\ get_be(last.out, 2) = <<3, {1, 2}>>
    /\ get_le(last.out, 2) = <<3, {0, 1}>>

\* the code of a symbol in a specification
CodeOf(values, symbol) == values[FirstOf(values, symbol)].code

\* C25: for both bit orders and complete prefix-free specifications with
\* distinct symbols, write_huffman writes the code of the symbol bit by
\* bit; after byte_align, read_huffman on the bytes written, called once
\* per symbol, returns the symbols written, in order.  With the codes 0,
\* 10, 110, 111 of a, b, c, d under BigEndian, writing b, c, d produces the
\* single byte 0b10110111.
C25_HuffmanRoundTrip ==
    side = "hrt"
    => /\ last.op = "write_huffman"
              => /\ last.res = "Ok"
                 /\ wr = write_bits(endian, last.pre,
                                    CodeOf(log, last.out)).w
       /\ last.op = "read_huffman"
              => (last.res = "Ok" /\ last.out = accepted[idx - 1])
       /\ (idx >= 1 /\ endian = "BE" /\ log = ExampleSpec
               /\ accepted = <<2, 3, 4>>)
              => wr.sink = << {0, 1, 2, 4, 5, 7} >>

\* b, c, d written and read back from the byte 0b10110111
C25_Witness ==
    /\ side = "hrt" /\ endian = "BE" /\ log = ExampleSpec
    /\ accepted = <<2, 3, 4>>
    /\ idx = 4
    /\ last.op = "read_huffman" /\ last.res = "Ok" /\ last.out = 4
    /\ rd.src = << {0, 1, 2, 4, 5, 7} >>
    /\ len(rd.bitqueue) = 0

LastIsReadHuffman == side = "r" /\ last.op = "read_huffman"

\* code i of the specification is what n read_bit calls on the reader
\* would deliver next, n the length of the code
Upcoming(E, r, values, i) ==
    With(read_bits(E, r, Len(values[i].code)),
         LAMBDA n_calls : n_calls.res = "Ok" /\ n_calls.bs = values[i].code)

\* C28: for a compiled decode tree, any residual of 0..7 cached bits and a
\* source that holds a whole code, read_huffman returns the symbol whose
\* code the upcoming bits start with and leaves the reader exactly as one
\* read_bit call per bit of the code does: a byte is fetched only when the
\* bits cached do not resolve the code, and the residual is the rest of
\* the last byte fetched.  The InvalidState entry is never reached, also
\* when the source runs out.
C28_TrieWalk ==
    LastIsReadHuffman
    => /\ ReadHuffmanTree_new(log).res = "Ok"
       /\ last.res \in {"Ok", "IoError"}
       /\ \A i \in DOMAIN log :
              Upcoming(endian, last.pre, log, i)
              => /\ last.res = "Ok"
                 /\ last.out = log[i].symbol
                 /\ rd = read_bits(endian, last.pre, Len(log[i].code)).r
                 /\ Taken(last.pre, rd) = Len(log[i].code)
                 /\ (Len(log[i].code) <= len(last.pre.bitqueue))
                        => rd.pos = last.pre.pos
       /\ last.res = "Ok"
              => \E i \in DOMAIN log : Upcoming(endian, last.pre, log, i)

\* a code of nine bits read from a residual of three bits: one byte is
\* fetched and two bits are left
C28_Witness ==
    /\ LastIsReadHuffman /\ last.res = "Ok"
    /\ log = CombSpec
    /\ last.out = 10
    /\ len(last.pre.bitqueue) = 3
    /\ rd.pos = last.pre.pos + 1
    /\ len(rd.bitqueue) = 2

\* the value, in bit order E, of the last k bits of a byte in stream order
LastBits(E, byte, k) == FieldValue(E, SubSeq(FieldBits(E, 8, byte), 9 - k, 8))

\* into_unread: the bits fetched and not delivered, of the last byte fetched
UnreadIsPending(E, r, delivered) ==
    With(into_unread(r),
         LAMBDA p :
           /\ p[1] \in 0 .. 7
           /\ p[1] = 8 * r.pos - delivered
           /\ Fits(p[2], p[1])
           /\ p[1] > 0 => p[2] = LastBits(E, r.src[r.pos], p[1])
           /\ p[1] = 0 => p[2] = zero)

\* into_unwritten: the bits accepted and not flushed to the sink
UnwrittenIsPending(E, w, bs) ==
    With(into_unwritten(w),
         LAMBDA p :
           /\ p[1] \in 0 .. 7
           /\ p[1] = Len(bs) % 8
           /\ Fits(p[2], p[1])
           /\ p[2] = PackedRest(E, bs).value
           /\ p[1] = 0 => p[2] = zero)

\* C26: after successful operations, into_unread returns (k, v) with k in
\* 0..7 the number of bits fetched and not delivered and v < 2^k their
\* value in the bit order of the reader, and into_unwritten returns (k, v)
\* with k the number of bits accepted modulo 8 and v < 2^k the value of the
\* bits not flushed; the value is 0 when k = 0.
C26_PendingPartialByte ==
    /\ (side = "r" /\ clean) => UnreadIsPending(endian, rd, consumed)
    /\ (side = "w" /\ clean) => UnwrittenIsPending(endian, wr, accepted)

\* the elements of a sequence
Range(seq) == { seq[i] : i \in DOMAIN seq }

\* the bits a reader delivers before its source ends or fails
Supply(r) == 8 * (FirstBroken(r) - 1 - r.pos) + len(r.bitqueue)

\* the error of the source of a reader: the failure it holds, or
\* UnexpectedEof at its end
SourceError(r) ==
    IF FirstBroken(r) <= Len(r.src) THEN "OtherError" ELSE "IoError"

\* the reader operations that ask for last.bits bits, the requests that
\* are rejected before any byte is fetched left out
AsksBits ==
    \/ last.op \in {"read_bit", "skip", "read_bytes", "create_sub_reader"}
    \/ /\ last.op \in {"read", "read_signed"}
       /\ last.bits <= bits_size(Ty(last.T))

\* the source of the reader fails during the last call
SourceFails ==
    \/ AsksBits /\ Supply(last.pre) < last.bits
    \/ /\ last.op \in {"read_unary0", "read_unary1"}
       /\ (IF last.op = "read_unary0" THEN 0 ELSE 1)
              \notin Range(read_bits(endian, last.pre, Supply(last.pre)).bs)
    \/ /\ last.op = "read_huffman"
       /\ \A i \in DOMAIN log : ~Upcoming(endian, last.pre, log, i)

\* the bits the last writer call appends
Appends ==
    IF last.op \in {"write_unary0", "write_unary1"} THEN last.bits + 1
    ELSE IF last.op = "byte_align"
    THEN (8 - len(last.pre.bitqueue)) % 8
    ELSE last.bits

\* write::<U>(bits, value) is rejected before any byte is written
Rejected ==
    /\ last.op = "write"
    /\ \/ last.bits > bits_size(Ty(last.T))
       \/ ~Fits(last.value, last.bits)

\* the sink fails during the last call: it is asked for a byte it cannot
\* take
SinkFails ==
    /\ ~Rejected
    /\ Len(last.pre.sink) + ((len(last.pre.bitqueue) + Appends) \div 8)
           > last.pre.cap

\* every operation but concatenate_reader returns the error of its stream
ErrorsReturned ==
    /\ (side = "r" /\ last.op \notin {"none", "concatenate_reader"})
       => /\ SourceFails => last.res = SourceError(last.pre)
          /\ ~SourceFails => last.res \in {"Ok", "InvalidInput"}
    /\ (side = "w" /\ last.op # "none")
       => /\ SinkFails => last.res = "IoError"
          /\ ~SinkFails => last.res \in {"Ok", "InvalidInput"}

LastIsConcatenate == side = "r" /\ last.op = "concatenate_reader"

C29_NoEffectOnRejection ==
    /\ (side = "w" /\ last.op \in {"write", "write_signed"}
            /\ last.res = "InvalidInput")
       => wr = last.pre
    /\ (side = "r" /\ last.op \in {"read", "read_signed"}
            /\ last.res = "InvalidInput")
       => rd = last.pre

LastIsZeroSigned ==
    /\ last.op \in {"read_signed", "write_signed"}
    /\ last.bits = 0

\* C30: read_signed::<S>(0) and write_signed::<S>(0, v) return a Result
\* under both bit orders: `bits - 1` is not evaluated below zero, no field of
\* 2^32 - 1 bits is requested, the call does not abort, and the reader
\* consumes and the writer emits no bit.
C30_ZeroWidthSigned ==
    LastIsZeroSigned
    => /\ \A checked \in BOOLEAN :
              /\ sub_u32(checked, last.bits, 1).res = "Ok"
              /\ ~ sub_u32(checked, last.bits, 1).wide
       /\ last.res # "Panic"
       /\ side = "r" => rd = last.pre
       /\ side = "w" => wr = last.pre

=============================================================================
